---- MODULE Spec2Model ----
(***************************************************************************)
(* The agent loop of MinimaxAgent (src-tauri/src/minimax_enhanced.rs):     *)
(* chat, chat_stream, prune_history and the message history they share.   *)
(*                                                                         *)
(* A text (message content, completion text, tool result) is a sequence   *)
(* of segments.  A segment is a run of bytes of one lexical kind:         *)
(*   "plain"    ordinary characters                                        *)
(*   "ws"       whitespace                                                 *)
(*   "think"    one <think>...</think> block on a single line              *)
(*   "tool"     one [TOOL]...[/TOOL] block holding JSON tool objects       *)
(*   "xml"      one <tool_code>...</tool_code> block holding JSON          *)
(* s is the literal source text of the segment, pad a number of further   *)
(* filler bytes of the same kind (so that a 400 kB tool result is one     *)
(* value), calls the (name, arguments) pairs a "tool"/"xml" block holds.  *)
(* An Option<T> is a sequence of length 0 (None) or 1 (Some).             *)
(***************************************************************************)
EXTENDS Integers, Sequences, FiniteSets, TLC

VARIABLES
    conversation_history,      \* MinimaxAgent.conversation_history
    pc,                        \* position of the running call of chat / chat_stream
    max_iterations,            \* argument of chat / chat_stream
    iteration,                 \* loop variable of `for iteration in 0..max_iterations`
    total_tool_calls,          \* local of chat / chat_stream
    tool_calls,                \* local: the calls extracted in this iteration
    idx,                       \* position of `for tool_call in tool_calls` (1-based)
    stream,                    \* chat_stream: deltas of the response not yet received
    full_content,              \* chat_stream: local accumulated text
    should_stop,               \* chat_stream: the AtomicBool set by the stop listener
    listening,                 \* the "stop-generation" listener is registered
    last_tool_call_signature,  \* chat_stream: Option<String>
    consecutive_repeats,       \* chat_stream: local counter
    break_outer,               \* chat_stream: local flag of the loop-detection abort
    result,                    \* Option of the value returned by chat / chat_stream
    emitted,                   \* StreamChunks emitted on "chat-stream", in order
    completions,               \* number of completion-service calls of this run
    executed,                  \* calls passed to execute_tool in this run, in order
    pruned_from,               \* the history the last call of prune_history was given
    stop_at,                   \* Option: where the loop stood when the stop listener ran
    app_mode,                  \* MinimaxAgent.app_mode
    enabled_tools,             \* MinimaxAgent.enabled_tools: HashMap<String, bool>
    safe_mode,                 \* MinimaxAgent.safe_mode
    files,                     \* the paths under the knowledge base root that were written
    spawned,                   \* the commands handed to std::process::Command
    tool_call,                 \* Option: the last call of execute_tool and what it returned
    response_text,             \* Option: the assistant text handed to the text extraction
    call_base,                 \* the base_call_index handed to the text extraction
    extracted,                 \* Option: what the text extraction returned
    knowledge,                 \* Option: the content handed to TemporalKnowledgeGraph
    tkg_trace,                 \* the WAMA evaluations, embedding calls and upserts, in order
    tkg_result,                \* Option: what the store path returned
    research_pc,               \* position of the "deep_research" arm of execute_tool
    sub_topics,                \* deep_research: the sub-topics, each with what its branch finds
    handles,                   \* deep_research: state of the task behind each JoinHandle
    reports,                   \* deep_research: local Vec<String> of sections
    research_result,           \* Option: the value the "deep_research" arm returned
    sse_lines,                 \* the lines of the response body the service sends
    network,                   \* chat_stream: bytes of the body not yet yielded by `stream`
    buffer,                    \* chat_stream: local Vec<u8> of bytes not yet processed
    sse_pc,                    \* position of the receive loop of chat_stream
    streamed                   \* chat_stream: full_content, tool_calls and emitted chunks

vars == <<conversation_history, pc, max_iterations, iteration, total_tool_calls,
          tool_calls, idx, stream, full_content, should_stop, listening,
          last_tool_call_signature, consecutive_repeats, break_outer, result,
          emitted, completions, executed, pruned_from, stop_at,
          app_mode, enabled_tools, safe_mode, files, spawned, tool_call,
          response_text, call_base, extracted,
          knowledge, tkg_trace, tkg_result,
          research_pc, sub_topics, handles, reports, research_result,
          sse_lines, network, buffer, sse_pc, streamed>>

None == <<>>
Some(x) == <<x>>

----------------------------------------------------------------------------
(* Bounds of the model *)

\* largest max_iterations passed to chat / chat_stream under Spec
MaxIter == 3
\* max_iterations of the long streaming run of SpecLong
LongIter == 5
\* number of user messages loaded before the run starts
MaxUser == 1
\* longest history SpecPrune hands to prune_history
MaxHistory == 12

\* const MAX_TOKENS in prune_history
MAX_TOKENS == 90000
\* const MIN_MESSAGES in prune_history
MIN_MESSAGES == 10
\* `consecutive_repeats >= 2` in chat_stream
REPEAT_LIMIT == 2

----------------------------------------------------------------------------
(* Texts *)

\* a text is a sequence of segments: `s` is the segment as written, `pad` the
\* number of further bytes, `calls` what a block yields to the parser of its
\* tag, `objects` the JSON objects written in it
Seg(kind, s) == [kind |-> kind, s |-> s, pad |-> 0, calls |-> <<>>, objects |-> <<>>]
Padded(kind, s, pad) ==
    [kind |-> kind, s |-> s, pad |-> pad, calls |-> <<>>, objects |-> <<>>]
Block(kind, s, calls) ==
    [kind |-> kind, s |-> s, pad |-> 0, calls |-> calls, objects |-> <<>>]
Fn(name, arguments) == [name |-> name, arguments |-> arguments]

\* String::len of a text: its number of bytes
RECURSIVE TextLen(_)
TextLen(text) ==
    IF text = <<>> THEN 0
    ELSE Len(Head(text).s) + Head(text).pad + TextLen(Tail(text))

\* str::trim on a text
RECURSIVE TrimStart(_)
TrimStart(text) ==
    IF text # <<>> /\ Head(text).kind = "ws" THEN TrimStart(Tail(text)) ELSE text

RECURSIVE TrimEnd(_)
TrimEnd(text) ==
    IF text # <<>> /\ text[Len(text)].kind = "ws"
    THEN TrimEnd(SubSeq(text, 1, Len(text) - 1))
    ELSE text

Trim(text) == TrimEnd(TrimStart(text))

IsThink(seg) == seg.kind = "think"

\* chat: the display content, <think>...</think> removed and the rest trimmed
clean_content(text_content) ==
    IF \E i \in 1..Len(text_content) : IsThink(text_content[i])
    THEN Trim(SelectSeq(text_content, LAMBDA seg : ~IsThink(seg)))
    ELSE text_content

----------------------------------------------------------------------------
(* Messages and tool calls *)

ToolCall(id, name, arguments) ==
    [id |-> id, name |-> name, arguments |-> arguments]

Message(role, content, calls, call_id) ==
    [role |-> role, content |-> content, tool_calls |-> calls, tool_call_id |-> call_id]

UserMessage(content) == Message("user", content, None, None)

AssistantMessage(content, calls) ==
    Message("assistant", content, IF calls = <<>> THEN None ELSE Some(calls), None)

ToolMessage(content, id) == Message("tool", content, None, Some(id))

(* serde_json values as the text extraction sees them.  An object is the
   sequence of its members <<key, value>> in the order they are written. *)

Str(s) == [t |-> "string", v |-> s]
Num(n) == [t |-> "number", v |-> n]
Arr(items) == [t |-> "array", v |-> items]
Obj(members) == [t |-> "object", v |-> members]

\* Value::get(key): None on anything that is not an object with that key
get(value, key) ==
    IF value.t = "object" /\ \E i \in 1..Len(value.v) : value.v[i][1] = key
    THEN Some(value.v[CHOOSE i \in 1..Len(value.v) : value.v[i][1] = key][2])
    ELSE None

\* Option::or_else
or_else(first, second) == IF first # None THEN first ELSE second

\* `.and_then(|f| f.get(key))`
and_then_get(option, key) == IF option = None THEN None ELSE get(option[1], key)

\* `.and_then(|n| n.as_str())`
and_then_as_str(option) ==
    IF option # None /\ option[1].t = "string" THEN Some(option[1].v) ELSE None

\* serde_json::to_string / Value::to_string: the compact JSON text
RECURSIVE serde_to_string(_), write_members(_), write_items(_)
serde_to_string(value) ==
    CASE value.t = "string" -> "\"" \o value.v \o "\""
      [] value.t = "number" -> ToString(value.v)
      [] value.t = "array" -> "[" \o write_items(value.v) \o "]"
      [] value.t = "object" -> "{" \o write_members(value.v) \o "}"

write_members(members) ==
    IF members = <<>> THEN ""
    ELSE "\"" \o Head(members)[1] \o "\":" \o serde_to_string(Head(members)[2])
         \o (IF Len(members) > 1 THEN "," ELSE "") \o write_members(Tail(members))

write_items(items) ==
    IF items = <<>> THEN ""
    ELSE serde_to_string(Head(items))
         \o (IF Len(items) > 1 THEN "," ELSE "") \o write_items(Tail(items))

\* str::contains
contains(haystack, needle) ==
    \E i \in 1..(Len(haystack) - Len(needle) + 1) :
        SubSeq(haystack, i, i + Len(needle) - 1) = needle

\* the `match args_val` of parse_text_tool_calls
arguments_of(args_val) ==
    IF args_val = None THEN "{}"
    ELSE IF args_val[1].t = "string" THEN args_val[1].v
    ELSE serde_to_string(args_val[1])

\* the closure process_tool_obj of parse_text_tool_calls: the call an object
\* of a bracketed block names, if it names one
process_tool_obj(obj) ==
    LET name == and_then_as_str(
                    or_else(get(obj, "tool"),
                    or_else(get(obj, "name"),
                            and_then_get(get(obj, "function"), "name"))))
        args_val == or_else(get(obj, "args"),
                    or_else(get(obj, "arguments"),
                            and_then_get(get(obj, "function"), "arguments")))
    IN  IF name = None THEN <<>> ELSE <<Fn(name[1], arguments_of(args_val))>>

RECURSIVE process_items(_)
process_items(array) ==
    IF array = <<>> THEN <<>>
    ELSE process_tool_obj(Head(array)) \o process_items(Tail(array))

\* the loop over `deserializer.into_iter()`: `values` are the JSON values the
\* block starts with, up to its end or its first invalid token
RECURSIVE process_values(_)
process_values(values) ==
    IF values = <<>> THEN <<>>
    ELSE (IF Head(values).t = "array" THEN process_items(Head(values).v)
          ELSE process_tool_obj(Head(values)))
         \o process_values(Tail(values))

\* a `}` ends the match of `\{.*?\}` inside this value
RECURSIVE HasBrace(_)
HasBrace(value) ==
    CASE value.t = "object" -> TRUE
      [] value.t = "array" -> \E i \in 1..Len(value.v) : HasBrace(value.v[i])
      [] value.t = "string" -> contains(value.v, "}") \/ contains(value.v, "{")
      [] OTHER -> FALSE

\* args_block_regex `(\{.*?\})` matched the whole of a JSON object text: no
\* `}` comes before the one that closes it
CapturedWhole(object) == \A i \in 1..Len(object.v) : ~HasBrace(object.v[i][2])

\* the text after `args =>` in the legacy grammar is either a JSON object
\* (style "json") or `{ key => "value", ... }` (style "arrow", the pairs)
JsonArgs(object) == [style |-> "json", object |-> object, pairs |-> <<>>]
ArrowArgs(pairs) == [style |-> "arrow", object |-> Obj(<<>>), pairs |-> pairs]

\* the HashMap<String, String> of the `key => "value"` pairs as an object
RECURSIVE args_map(_)
args_map(pairs) ==
    IF pairs = <<>> THEN <<>>
    ELSE <<<<Head(pairs)[1], Str(Head(pairs)[2])>>>> \o args_map(Tail(pairs))

\* the legacy branch: `args_text` is what args_block_regex captured; it is read
\* as JSON when it is JSON, and else searched for `key => "value"` pairs (a
\* JSON text cut at its first `}` has none: its keys are quoted)
legacy_arguments(args) ==
    IF args = None THEN "{}"
    ELSE IF args[1].style = "json"
         THEN IF CapturedWhole(args[1].object)
              THEN serde_to_string(args[1].object)
              ELSE serde_to_string(Obj(<<>>))
         ELSE serde_to_string(Obj(args_map(args[1].pairs)))

\* name_regex and what follows: at most one call for the block
legacy_block(legacy) ==
    IF legacy.name = None THEN <<>>
    ELSE <<Fn(legacy.name[1], legacy_arguments(legacy.args))>>

\* the inner content of a [TOOL] block: the JSON values it starts with, and
\* what the legacy regexes find in it
JsonContent(values) == [values |-> values, legacy |-> [name |-> None, args |-> None]]
LegacyContent(name, args) == [values |-> <<>>, legacy |-> [name |-> name, args |-> args]]

\* one turn of `for cap in block_regex.captures_iter(text)`: a block in which
\* a JSON value was parsed is not given to the legacy branch
tool_block(content) ==
    IF content.values # <<>> THEN process_values(content.values)
    ELSE legacy_block(content.legacy)

\* the closure process_obj of parse_grok_xml_tools (the id is given later)
process_obj(obj) ==
    LET name == and_then_as_str(
                    or_else(get(obj, "name"),
                    or_else(get(obj, "tool_name"),
                            and_then_get(get(obj, "function"), "name"))))
        args == or_else(get(obj, "arguments"),
                or_else(get(obj, "args"),
                or_else(get(obj, "parameters"),
                        and_then_get(get(obj, "function"), "arguments"))))
        arguments_str == IF args # None /\ args[1].t \in {"object", "array", "string"}
                         THEN arguments_of(args)
                         ELSE "{}"
    IN  IF name = None THEN <<>> ELSE <<Fn(name[1], arguments_str)>>

RECURSIVE process_xml_items(_)
process_xml_items(array) ==
    IF array = <<>> THEN <<>>
    ELSE process_obj(Head(array)) \o process_xml_items(Tail(array))

\* one <tool_code> block: its content is one JSON value, or not JSON (None)
xml_block(content) ==
    IF content = None THEN <<>>
    ELSE IF content[1].t = "array" THEN process_xml_items(content[1].v)
    ELSE process_obj(content[1])

\* the objects written in a JSON value where the scan for `"tool": "` looks
Objects(value) ==
    IF value.t = "array" THEN SelectSeq(value.v, LAMBDA item : item.t = "object")
    ELSE IF value.t = "object" THEN <<value>>
    ELSE <<>>

RECURSIVE AllObjects(_)
AllObjects(values) ==
    IF values = <<>> THEN <<>>
    ELSE Objects(Head(values)) \o AllObjects(Tail(values))

\* a bracketed block, a <tool_code> block and a JSON object in running text
ToolBlock(s, content) ==
    [kind |-> "tool", s |-> s, pad |-> 0, calls |-> tool_block(content),
     objects |-> AllObjects(content.values)]
XmlBlock(s, content) ==
    [kind |-> "xml", s |-> s, pad |-> 0, calls |-> xml_block(content),
     objects |-> AllObjects(content)]
BareJson(s, object) ==
    [kind |-> "plain", s |-> s, pad |-> 0, calls |-> <<>>, objects |-> <<object>>]

\* the calls of the blocks of one kind, in text order
RECURSIVE BlockCalls(_, _)
BlockCalls(text, kind) ==
    IF text = <<>> THEN <<>>
    ELSE (IF Head(text).kind = kind THEN Head(text).calls ELSE <<>>)
         \o BlockCalls(Tail(text), kind)

\* every JSON object of the text, in text order
RECURSIVE TextObjects(_)
TextObjects(text) ==
    IF text = <<>> THEN <<>>
    ELSE Head(text).objects \o TextObjects(Tail(text))

\* tool_key_regex `"tool"\s*:\s*"` matches in the object, and walking back
\* from the match the `{` of the object is met before any `}`
ToolKeyFound(object) ==
    \E i \in 1..Len(object.v) :
        /\ object.v[i][1] = "tool"
        /\ object.v[i][2].t = "string"
        /\ \A j \in 1..(i - 1) : ~HasBrace(object.v[j][2])

\* mutant: every call of the bracketed blocks is given the id of the first
CallId_Base(base_call_index, n) == "call_" \o ToString(base_call_index)

\* `format!("call_{}", base_call_index + parsed_calls.len())`
CallId(base_call_index, n) == "call_" \o ToString(base_call_index + n)

\* the fallback of parse_text_tool_calls: JSON objects with a "tool" key
\* anywhere in the text, tags or not
RECURSIVE bare_json(_, _, _)
bare_json(objects, base_call_index, parsed_calls) ==
    IF objects = <<>> THEN parsed_calls
    ELSE LET object == Head(objects)
             name == and_then_as_str(get(object, "tool"))
             args_val == or_else(get(object, "arguments"), get(object, "args"))
             seen == \E i \in 1..Len(parsed_calls) :
                        /\ parsed_calls[i].name = name[1]
                        /\ contains(parsed_calls[i].arguments, name[1])
         IN  IF ~ToolKeyFound(object) \/ name = None \/ seen
             THEN bare_json(Tail(objects), base_call_index, parsed_calls)
             ELSE bare_json(Tail(objects), base_call_index,
                            Append(parsed_calls,
                                   ToolCall(CallId(base_call_index, Len(parsed_calls)),
                                            name[1], arguments_of(args_val))))

\* mutant: a bracketed block that yields nothing ends the pass with no calls
parse_text_tool_calls_Aborts(text, base_call_index) ==
    LET found == BlockCalls(text, "tool")
    IN  IF \E k \in 1..Len(text) : text[k].kind = "tool" /\ text[k].calls = <<>>
        THEN <<>>
        ELSE IF found # <<>>
        THEN [n \in 1..Len(found) |->
                 ToolCall(CallId(base_call_index, n - 1),
                          found[n].name, found[n].arguments)]
        ELSE bare_json(TextObjects(text), base_call_index, <<>>)

\* parse_text_tool_calls: the calls of the bracketed blocks, ids
\* call_{base + n}; when there are none, the bare JSON objects of the text
parse_text_tool_calls(text, base_call_index) ==
    LET found == BlockCalls(text, "tool")
    IN  IF found # <<>>
        THEN [n \in 1..Len(found) |->
                 ToolCall(CallId(base_call_index, n - 1),
                          found[n].name, found[n].arguments)]
        ELSE bare_json(TextObjects(text), base_call_index, <<>>)

\* parse_grok_xml_tools: the <tool_code> blocks, ids call_{base}_{n}
parse_grok_xml_tools(text, base_call_index) ==
    LET found == BlockCalls(text, "xml")
    IN  [n \in 1..Len(found) |->
            ToolCall("call_" \o ToString(base_call_index) \o "_" \o ToString(n - 1),
                     found[n].name, found[n].arguments)]

----------------------------------------------------------------------------
(* Context pruning *)

RECURSIVE ArgsLen(_)
ArgsLen(calls) ==
    IF calls = <<>> THEN 0
    ELSE Len(Head(calls).arguments) + ArgsLen(Tail(calls))

MessageChars(msg) ==
    TextLen(msg.content)
    + (IF msg.tool_calls = None THEN 0 ELSE ArgsLen(msg.tool_calls[1]))

RECURSIVE HistoryChars(_)
HistoryChars(history) ==
    IF history = <<>> THEN 0
    ELSE MessageChars(Head(history)) + HistoryChars(Tail(history))

estimate_tokens(history) == HistoryChars(history) \div 4

\* mutant: the floor is compared with >=
RECURSIVE prune_loop_BelowFloor(_)
prune_loop_BelowFloor(history) ==
    IF estimate_tokens(history) > MAX_TOKENS /\ Len(history) >= MIN_MESSAGES
    THEN prune_loop_BelowFloor(Tail(history))
    ELSE history

\* the `while` of prune_history
RECURSIVE prune_loop(_)
prune_loop(history) ==
    IF estimate_tokens(history) > MAX_TOKENS /\ Len(history) > MIN_MESSAGES
    THEN prune_loop(Tail(history))
    ELSE history

prune_history(history) ==
    IF estimate_tokens(history) > MAX_TOKENS THEN prune_loop(history) ELSE history

----------------------------------------------------------------------------
(* What the completion service and the tools can answer *)

\* an entry of message.tool_calls / delta.tool_calls as it is on the wire
Wire(index, id, name, arguments) ==
    [index |-> index, id |-> id, name |-> name, arguments |-> arguments]

Buffered(content, calls) == [content |-> content, tool_calls |-> calls]
Delta(content, calls) == [content |-> content, tool_calls |-> calls]

TxtAnswer == <<Seg("plain", "The answer is 20.")>>
TxtThink == <<Seg("think", "<think>plan</think>"), Seg("ws", " "), Seg("plain", "Done.")>>
TxtTool ==
    <<Seg("plain", "ok"),
      Block("tool", "[TOOL]{\"tool\":\"calculate\",\"args\":{}}[/TOOL]",
            <<Fn("calculate", "{}")>>)>>
TxtXml ==
    <<Block("xml", "<tool_code>{\"name\":\"read_file\",\"args\":{}}</tool_code>",
            <<Fn("read_file", "{}")>>)>>

WireCalc == Wire(0, Some("a"), Some("calculate"), Some("{}"))
WireRead == Wire(1, Some("b"), Some("read_file"), Some("{\"p\":1}"))

\* choices[0].message of the buffered answers
Responses ==
    { Buffered(TxtAnswer, <<>>),
      Buffered(TxtThink, <<>>),
      Buffered(<<>>, <<WireCalc>>),
      Buffered(TxtAnswer, <<WireCalc, WireRead>>),
      Buffered(TxtTool, <<>>),
      Buffered(TxtXml, <<>>),
      Buffered(TxtTool, <<Wire(0, None, Some("calculate"), Some("{}"))>>) }

\* the deltas of the streamed answers, in the order of their data: lines
Streams ==
    { <<Delta(Some(TxtAnswer), <<>>)>>,
      <<Delta(None, <<WireCalc>>)>>,
      <<Delta(Some(TxtAnswer), <<Wire(0, Some("a"), Some("calculate"), Some("{"))>>),
        Delta(None, <<Wire(0, None, None, Some("}"))>>)>>,
      <<Delta(None, <<WireCalc, WireCalc>>), Delta(None, <<Wire(2, Some("c"), Some("calculate"), Some("{}"))>>)>>,
      <<Delta(None, <<WireRead>>)>>,
      <<Delta(Some(TxtTool), <<>>)>>,
      <<Delta(Some(TxtXml), <<>>)>>,
      <<Delta(Some(TxtTool), <<WireRead>>)>> }

----------------------------------------------------------------------------
(* execute_tool: the policy gates and the handlers that write or spawn     *)
(*                                                                         *)
(* A path string is the sequence of its components and separators, for     *)
(* instance <<"src", "/", "..", "/", "a.md">>.  A JSON value is a record;  *)
(* a String holding JSON text is the record [parse |-> value] of the value *)
(* the text parses to.  The argument string of a call is the record of the *)
(* fields its JSON object carries (json = FALSE: the string is not JSON).  *)

AppModes == {"Developer", "Student"}

\* AppMode::allowed_write_prefixes
allowed_write_prefixes(mode) ==
    IF mode = "Student" THEN {"research", "generated-guides"} ELSE {}

\* the names of register_tools that the model follows into their handlers,
\* and claim_legacy_data, which is registered but has no arm in execute_tool
register_tools ==
    {"canvas_update", "calculate", "write_file", "harvest_wiki", "claim_legacy_data",
     "write_file_batch", "run_terminal_command"}

is_forced_disabled_tool_TerminalOnly(tool_name) ==
    /\ app_mode = "Student"
    /\ tool_name \in {"run_terminal_command"}

is_forced_disabled_tool(tool_name) ==
    /\ app_mode = "Student"
    /\ tool_name \in {"run_terminal_command", "write_file_batch"}

IsEmpty(map) == DOMAIN map = {}

SessionEnabled_DefaultOff(tool_name) ==
    IF tool_name \in DOMAIN enabled_tools THEN enabled_tools[tool_name] ELSE FALSE

\* enabled_tools.get(tool_name).copied().unwrap_or(true)
SessionEnabled(tool_name) ==
    IF tool_name \in DOMAIN enabled_tools THEN enabled_tools[tool_name] ELSE TRUE

\* the names of the tools sent to the model
get_enabled_tools ==
    LET base_tools == {t \in register_tools : ~is_forced_disabled_tool(t)}
    IN  IF IsEmpty(enabled_tools) THEN base_tools
        ELSE {t \in base_tools : SessionEnabled(t)}

\* str::replace('\\', "/")
NormalizeSeparators(path) ==
    [k \in 1..Len(path) |-> IF path[k] = "\\" THEN "/" ELSE path[k]]

StartsWith(path, prefix) ==
    /\ Len(path) >= Len(prefix)
    /\ SubSeq(path, 1, Len(prefix)) = prefix

\* str::contains of the two-token pattern <<"..", sep>>
ContainsDotDot(path, sep) ==
    \E k \in 1..(Len(path) - 1) : path[k] = ".." /\ path[k + 1] = sep

\* str::trim_start_matches("./")
RECURSIVE TrimDotSlash(_)
TrimDotSlash(path) ==
    IF StartsWith(path, <<".", "/">>) THEN TrimDotSlash(SubSeq(path, 3, Len(path)))
    ELSE path

ScopePrefixes ==
    {<<"src", "/">>, <<"src-tauri", "/">>, <<"public", "/">>, <<"docs", "/">>,
     <<"generated-guides", "/">>, <<"KnowledgeCompanion", "/">>}

ScopeOk == [ok |-> TRUE, error |-> ""]
ScopeErr(error) == [ok |-> FALSE, error |-> error]

validate_write_scope(path_str) ==
    LET normalized_path == NormalizeSeparators(path_str)
        is_allowed ==
            \/ \E prefix \in ScopePrefixes : StartsWith(normalized_path, prefix)
            \/ normalized_path = <<"README.md">>
            \/ normalized_path = <<"package.json">>
    IN  IF ~is_allowed
        THEN ScopeErr("Security Error: Writing to this path is not allowed.")
        ELSE IF ContainsDotDot(normalized_path, "/") \/ ContainsDotDot(normalized_path, "\\")
        THEN ScopeErr("Security Error: Path traversal (../) is forbidden.")
        ELSE ScopeOk

is_allowed_write_path(rel_path) ==
    IF app_mode # "Student" THEN TRUE
    ELSE LET trimmed == TrimDotSlash(NormalizeSeparators(rel_path))
         IN  \E prefix \in allowed_write_prefixes(app_mode) :
                \/ trimmed = <<prefix>>
                \/ Len(trimmed) >= 2 /\ trimmed[1] = prefix /\ trimmed[2] = "/"

\* serde_json::json!({ "success": .., "error": .., "results": .. })
JsonObject(success, error, results) ==
    [kind |-> "object", success |-> success, error |-> error, results |-> results,
     text |-> None]
Succeeded == JsonObject(Some(TRUE), None, <<>>)
Failure(error) == JsonObject(Some(FALSE), Some(error), <<>>)
\* serde_json::Value::String(s)
JsonString(s) ==
    [kind |-> "string", success |-> None, error |-> None, results |-> <<>>,
     text |-> Some(s)]
\* Value::to_string: the JSON text of a value
to_string(value) == [parse |-> value]

\* what a handler returns and what it did to the machine
Outcome(value, writes, spawns) == [value |-> value, writes |-> writes, spawns |-> spawns]
Rejected(error) == Outcome(Failure(error), {}, {})

SafeModeWriteMessage == "Safe Mode is enabled. File writing is disabled."
SafeModeCommandMessage == "Safe Mode is enabled. Terminal commands are disabled."
StudentScopeMessage == "Student mode: AI may only write to 'research/' or 'generated-guides/'"

\* repo_root.join(path).starts_with(&repo_root): join keeps an absolute path as it is
WithinRoot(path) == path = <<>> \/ path[1] # "/"

\* the path names a directory, so that opening it for writing fails
NamesDirectory(path) == path = <<>> \/ path[Len(path)] \in {"..", ".", "/", "\\"}

\* std::fs::write / OpenOptions::open + write_all
WriteFails(path, env) == env = "io_error" \/ NamesDirectory(path)

tool_write_file(arguments, env) ==
    IF ~arguments.json THEN Rejected("Invalid arguments")
    ELSE IF arguments.path = None \/ arguments.content = None
    THEN Rejected("Missing 'path' or 'content' argument")
    ELSE LET path == arguments.path[1]
             scope == validate_write_scope(path)
         IN  IF ~scope.ok THEN Rejected(scope.error)
             ELSE IF app_mode = "Student" /\ ~is_allowed_write_path(path)
             THEN Rejected(StudentScopeMessage)
             ELSE IF env = "no_root" THEN Rejected("Could not find repository root")
             ELSE IF ~WithinRoot(path) THEN Rejected("Path must be within repository root")
             ELSE IF WriteFails(path, env) THEN Rejected("Failed to write file")
             ELSE Outcome(Succeeded, {path}, {})

EntryResult(path, success, error) == [path |-> path, success |-> success, error |-> error]

\* one pass of `for file_obj in file_list`
BatchEntry(file_obj, env) ==
    IF file_obj.path = None \/ file_obj.content = None THEN <<>>
    ELSE LET path_str == file_obj.path[1]
             scope == validate_write_scope(path_str)
         IN  IF ~scope.ok THEN <<EntryResult(path_str, FALSE, Some(scope.error))>>
             ELSE IF ~WithinRoot(path_str)
             THEN <<EntryResult(path_str, FALSE, Some("Path traversal detected"))>>
             ELSE IF WriteFails(path_str, env)
             THEN <<EntryResult(path_str, FALSE, Some("write failed"))>>
             ELSE <<EntryResult(path_str, TRUE, None)>>

RECURSIVE BatchResults(_, _)
BatchResults(file_list, env) ==
    IF file_list = <<>> THEN <<>>
    ELSE BatchEntry(Head(file_list), env) \o BatchResults(Tail(file_list), env)

tool_write_file_batch(arguments, env) ==
    IF safe_mode THEN Rejected(SafeModeWriteMessage)
    ELSE IF ~arguments.json \/ arguments.files = None
    THEN Rejected("Missing 'files' argument")
    ELSE LET results == BatchResults(arguments.files[1], env)
         IN  Outcome(JsonObject(Some(TRUE), None, results),
                     {results[k].path : k \in {n \in 1..Len(results) : results[n].success}},
                     {})

tool_run_terminal_command(arguments, env) ==
    IF safe_mode THEN Rejected(SafeModeCommandMessage)
    ELSE LET command == IF arguments.json /\ arguments.command # None
                        THEN arguments.command[1] ELSE ""
         IN  IF command = "" THEN Rejected("Missing 'command' argument")
             ELSE IF env = "io_error" THEN Rejected("Failed to execute command")
             ELSE Outcome(Succeeded, {}, {command})

\* returns the JSON text of its envelope, a String
tool_canvas_update(arguments, env) ==
    IF ~arguments.json THEN to_string(Failure("Invalid JSON arguments"))
    ELSE LET action == IF arguments.action # None THEN arguments.action[1] ELSE ""
         IN  IF action \notin {"preview", "add_block", "clear"}
             THEN to_string(Failure("Unknown action"))
             ELSE IF env # "no_handle" THEN to_string(Succeeded)
             ELSE to_string(Failure("App handle not available"))

tool_calculate(arguments) ==
    IF ~arguments.json THEN Rejected("Invalid arguments")
    ELSE IF arguments.expression = None THEN Rejected("Missing 'expression' argument")
    ELSE IF arguments.expression[1] \notin {"(2+3)*4"}
    THEN Rejected("Expression contains invalid characters")
    ELSE Outcome(Succeeded, {}, {})

\* the file harvest_single_page saves the page of `query` to
HarvestPath(query) == <<"research", "/", "rs3", "/", query \o ".md">>

harvest_single_page(query, env) ==
    IF env = "io_error" THEN Rejected("Failed to fetch content")
    ELSE IF env = "no_root" THEN Rejected("Could not find knowledge base root")
    ELSE Outcome(Succeeded, {HarvestPath(query)}, {})

tool_harvest_wiki_async(arguments, env) ==
    IF ~arguments.json THEN Rejected("Invalid arguments")
    ELSE IF arguments.query = None THEN Rejected("Missing 'query' argument")
    ELSE harvest_single_page(arguments.query[1], env)

ModeLockMessage(tool_name) ==
    "Tool '" \o tool_name \o "' is not available in student mode"
SessionMessage(tool_name) ==
    "Tool '" \o tool_name \o "' is disabled in this session"
UnknownTool(tool_name) ==
    JsonObject(None, Some("Unknown tool: " \o tool_name), <<>>)

\* what a call of execute_tool returned, the handler it entered ("": none) and
\* what that handler did
Executed(handler, outcome) ==
    [returned |-> to_string(outcome.value), handler |-> handler,
     wrote |-> outcome.writes, ran |-> outcome.spawns]

\* execute_tool with its handlers: the mode lock, the session toggle, the match
ExecuteToolOutcome(tool_name, arguments, env) ==
    IF is_forced_disabled_tool(tool_name)
    THEN Executed("", Rejected(ModeLockMessage(tool_name)))
    ELSE IF ~IsEmpty(enabled_tools) /\ ~SessionEnabled(tool_name)
    THEN Executed("", Rejected(SessionMessage(tool_name)))
    ELSE IF tool_name = "write_file_batch"
    THEN Executed(tool_name, tool_write_file_batch(arguments, env))
    ELSE IF tool_name = "run_terminal_command"
    THEN Executed(tool_name, tool_run_terminal_command(arguments, env))
    ELSE IF tool_name = "calculate"
    THEN Executed(tool_name, tool_calculate(arguments))
    ELSE IF tool_name = "canvas_update"
    THEN Executed(tool_name,
                  Outcome(JsonString(tool_canvas_update(arguments, env)), {}, {}))
    ELSE IF tool_name = "write_file"
    THEN Executed(tool_name, tool_write_file(arguments, env))
    ELSE IF tool_name = "harvest_wiki"
    THEN Executed(tool_name, tool_harvest_wiki_async(arguments, env))
    ELSE Executed("", Outcome(UnknownTool(tool_name), {}, {}))


PathSrc == <<"src", "/", "a.md">>
PathGuide == <<"generated-guides", "/", "a.md">>
PathResearch == <<"research", "/", "a.md">>
PathTraversal == <<"src", "/", "..", "/", "a.md">>
PathBackslash == <<"docs", "\\", "..", "\\", "a.md">>
PathDotDot == <<"src", "/", "..">>
PathOutside == <<"/", "etc", "/", "passwd">>
PathGuideRoot == <<"generated-guides">>
PathDotGuide == <<".", "/", "generated-guides", "/", "a.md">>

WritePaths ==
    {PathSrc, PathGuide, PathResearch, PathTraversal, PathBackslash, PathDotDot,
     PathOutside, PathGuideRoot, PathDotGuide}

\* the argument string "{}"
NoFields ==
    [json |-> TRUE, path |-> None, content |-> None, files |-> None, command |-> None,
     action |-> None, expression |-> None, query |-> None]
\* an argument string that is not JSON
NotJson == [NoFields EXCEPT !.json = FALSE]

WriteArgs(path) == [NoFields EXCEPT !.path = Some(path), !.content = Some("text")]
FileObj(path) == [path |-> Some(path), content |-> Some("text")]
BatchArgs(file_list) == [NoFields EXCEPT !.files = Some(file_list)]

----------------------------------------------------------------------------
(* What the tools answer to the agent loop *)

ResultOk == <<Seg("plain", "{\"success\":true,\"result\":20}")>>
ResultErr == <<Seg("plain", "{\"success\":false,\"error\":\"x\"}")>>
ResultHuge == <<Padded("plain", "{\"success\":true,\"content\":\"\"}", 4 * MAX_TOKENS)>>

\* Value::to_string of an envelope without results, as the text of a message
\* (the keys of a serde_json map are written in alphabetical order)
ResultText(value) ==
    IF value.success = Some(TRUE) THEN <<Seg("plain", "{\"success\":true}")>>
    ELSE IF value.success = None
    THEN <<Seg("plain", "{\"error\":\"" \o value.error[1] \o "\"}")>>
    ELSE <<Seg("plain", "{\"error\":\"" \o value.error[1] \o "\",\"success\":false}")>>

WriteOutsideText == "{\"path\":\"/etc/passwd\",\"content\":\"text\"}"

\* serde_json::from_str of the argument strings the completion service sends
from_str(arguments) ==
    IF arguments = WriteOutsideText THEN WriteArgs(PathOutside)
    ELSE IF arguments \in {"{}", "{\"p\":1}"} THEN NoFields
    ELSE NotJson

\* what a call of execute_tool gives the loop: the returned String and what
\* the handler did to the machine
Done(returned, wrote, ran) == [returned |-> returned, wrote |-> wrote, ran |-> ran]
Handled(outcome) == Done(ResultText(outcome.value), outcome.writes, outcome.spawns)

\* execute_tool as the loops call it, on argument strings: the mode lock, the
\* session toggle, then the match on the name.  calculate succeeds, read_file
\* fails or returns a large file, write_file and run_terminal_command go
\* through their handlers, any other name is the `_` arm
execute_tool(name, arguments) ==
    IF is_forced_disabled_tool(name)
    THEN {Handled(Rejected(ModeLockMessage(name)))}
    ELSE IF ~IsEmpty(enabled_tools) /\ ~SessionEnabled(name)
    THEN {Handled(Rejected(SessionMessage(name)))}
    ELSE IF name = "calculate" THEN {Done(ResultOk, {}, {})}
    ELSE IF name = "read_file" THEN {Done(ResultErr, {}, {}), Done(ResultHuge, {}, {})}
    ELSE IF name = "write_file"
    THEN {Handled(tool_write_file(from_str(arguments), env)) : env \in {"ok", "io_error"}}
    ELSE IF name = "run_terminal_command"
    THEN {Handled(tool_run_terminal_command(from_str(arguments), env)) :
            env \in {"ok", "io_error"}}
    ELSE {Handled(Outcome(UnknownTool(name), {}, {}))}

----------------------------------------------------------------------------
(* Values returned and chunks emitted *)

Ok(content, made, iterations) ==
    [ok |-> TRUE, error |-> "", content |-> content, tool_calls_made |-> made,
     iterations |-> iterations]
OkUnit == Ok(<<>>, 0, 0)
Err(error) ==
    [ok |-> FALSE, error |-> error, content |-> <<>>, tool_calls_made |-> 0,
     iterations |-> 0]

StreamChunk(content, done, calls) ==
    [content |-> content, done |-> done, tool_calls |-> calls]

StoppedNotice == <<Seg("plain", "\n\n*[Generation stopped by user]*")>>

ChatMaxError(n) ==
    "Maximum iterations (" \o ToString(n) \o ") reached. The task may be too complex."
StreamMaxError(n) == "Maximum iterations (" \o ToString(n) \o ") reached"

----------------------------------------------------------------------------
(* The state after MinimaxAgent::new *)

new(current) ==
    /\ conversation_history = <<>>
    /\ pc = "idle"
    /\ max_iterations = 0
    /\ iteration = 0
    /\ total_tool_calls = 0
    /\ tool_calls = <<>>
    /\ idx = 0
    /\ stream = <<>>
    /\ full_content = <<>>
    /\ should_stop = FALSE
    /\ listening = FALSE
    /\ last_tool_call_signature = None
    /\ consecutive_repeats = 0
    /\ break_outer = FALSE
    /\ result = None
    /\ emitted = <<>>
    /\ completions = 0
    /\ executed = <<>>
    /\ pruned_from = <<>>
    /\ stop_at = None
    /\ app_mode = current
    /\ enabled_tools = <<>>
    /\ safe_mode = (current = "Student")
    /\ files = {}
    /\ spawned = {}
    /\ tool_call = None

\* a developer build with KNOWLEDGE_COMPANION_MODE unset
\* the components that are not fields of the agent are at rest: no text is
\* being parsed, TemporalKnowledgeGraph has stored nothing, no research runs
text_parser == <<response_text, call_base, extracted>>
tkg == <<knowledge, tkg_trace, tkg_result>>
deep_research == <<research_pc, sub_topics, handles, reports, research_result>>
receiver == <<sse_lines, network, buffer, sse_pc, streamed>>

ParserAtRest == response_text = None /\ call_base = 0 /\ extracted = None
TkgAtRest == knowledge = None /\ tkg_trace = <<>> /\ tkg_result = None
ResearchAtRest ==
    /\ research_pc = "idle"
    /\ sub_topics = <<>>
    /\ handles = <<>>
    /\ reports = <<>>
    /\ research_result = None

\* no response body is being received
Received(content, calls, chunks) ==
    [full_content |-> content, tool_calls |-> calls, emitted |-> chunks]
ReceiverAtRest ==
    /\ sse_lines = <<>>
    /\ network = ""
    /\ buffer = ""
    /\ sse_pc = "idle"
    /\ streamed = Received("", <<>>, <<>>)

Init ==
    /\ new("Developer")
    /\ ParserAtRest /\ TkgAtRest /\ ResearchAtRest /\ ReceiverAtRest

stream_locals == <<stream, full_content, should_stop, listening,
                   last_tool_call_signature, consecutive_repeats, break_outer, emitted,
                   pruned_from, stop_at>>
loop_detection == <<last_tool_call_signature, consecutive_repeats, break_outer>>
executor == <<app_mode, enabled_tools, safe_mode, files, spawned, tool_call>>

add_user_message(content) ==
    /\ pc = "idle"
    /\ conversation_history' = Append(conversation_history, UserMessage(content))
    /\ UNCHANGED <<pc, max_iterations, iteration, total_tool_calls, tool_calls, idx,
                   result, completions, executed>>
    /\ UNCHANGED stream_locals
    /\ UNCHANGED <<executor, text_parser, tkg, deep_research, receiver>>

----------------------------------------------------------------------------
(* chat *)

\* the entries of message.tool_calls that carry an id, a name and arguments
NormalizeCalls(wire) ==
    LET ok == SelectSeq(wire, LAMBDA c : c.id # None /\ c.name # None /\ c.arguments # None)
    IN  [n \in 1..Len(ok) |-> ToolCall(ok[n].id[1], ok[n].name[1], ok[n].arguments[1])]

\* chat: structured calls, else the calls of the text markers
ChatExtract(response, base) ==
    LET structured == NormalizeCalls(response.tool_calls)
    IN  IF structured = <<>>
        THEN parse_text_tool_calls(response.content, base)
        ELSE structured

\* mutant: the range is taken inclusive
LoopContinues_Inclusive == iteration <= max_iterations

\* `for iteration in 0..max_iterations`
LoopContinues == iteration < max_iterations

\* mutant: the calls are taken from the back of the list
CurrentCall_Reversed == tool_calls[Len(tool_calls) - idx + 1]

\* `for tool_call in tool_calls`
CurrentCall == tool_calls[idx]

\* mutant: a single tool call is taken for the final answer
NoToolCalls_AtMostOne(calls) == Len(calls) <= 1

\* `tool_calls.is_empty()`: the iteration holds the final answer
NoToolCalls(calls) == calls = <<>>

\* mutant: the zero-based loop variable is reported
ChatResponse_ZeroBased(text_content) ==
    Ok(clean_content(text_content), total_tool_calls, iteration)

\* the ChatResponse of the final answer
ChatResponse(text_content) ==
    Ok(clean_content(text_content), total_tool_calls, iteration + 1)

StartChat(n) ==
    /\ pc = "idle"
    /\ pc' = "chat_top"
    /\ max_iterations' = n
    /\ iteration' = 0
    /\ total_tool_calls' = 0
    /\ UNCHANGED <<conversation_history, tool_calls, idx, result, completions, executed>>
    /\ UNCHANGED stream_locals
    /\ UNCHANGED <<executor, text_parser, tkg, deep_research, receiver>>

\* one completion call of chat and what follows it up to the first tool
ChatCompletion(response) ==
    /\ pc = "chat_top"
    /\ LoopContinues
    /\ completions' = completions + 1
    /\ LET calls == ChatExtract(response, total_tool_calls)
       IN  /\ conversation_history' =
                Append(conversation_history, AssistantMessage(response.content, calls))
           /\ tool_calls' = calls
           /\ IF NoToolCalls(calls)
              THEN /\ result' = Some(ChatResponse(response.content))
                   /\ pc' = "chat_done"
                   /\ UNCHANGED <<total_tool_calls, idx>>
              ELSE /\ total_tool_calls' = total_tool_calls + Len(calls)
                   /\ idx' = 1
                   /\ pc' = "chat_exec"
                   /\ UNCHANGED result
    /\ UNCHANGED <<max_iterations, iteration, executed>>
    /\ UNCHANGED stream_locals
    /\ UNCHANGED <<executor, text_parser, tkg, deep_research, receiver>>

\* the request fails, the status is not a success, or the body does not parse
\* what chat returns when its completion call fails: the request is not
\* sent or answered, the status is an error, the body is not JSON, or the
\* JSON has no choices[0].message
ChatErrors ==
    {"Request failed", "API error", "Failed to parse response",
     "Invalid response format: missing choices[0].message"}

\* what chat_stream returns when its request fails
RequestErrors == {"Request failed", "API error"}

ChatCompletionFails(error) ==
    /\ pc = "chat_top"
    /\ LoopContinues
    /\ completions' = completions + 1
    /\ result' = Some(Err(error))
    /\ pc' = "chat_done"
    /\ UNCHANGED <<conversation_history, max_iterations, iteration, total_tool_calls,
                   tool_calls, idx, executed>>
    /\ UNCHANGED stream_locals
    /\ UNCHANGED <<executor, text_parser, tkg, deep_research, receiver>>

\* execute_tool is entered for tool_calls[idx]
ChatToolBegin ==
    /\ pc = "chat_exec"
    /\ executed' = Append(executed, CurrentCall)
    /\ pc' = "chat_running"
    /\ UNCHANGED <<conversation_history, max_iterations, iteration, total_tool_calls,
                   tool_calls, idx, result, completions>>
    /\ UNCHANGED stream_locals
    /\ UNCHANGED <<executor, text_parser, tkg, deep_research, receiver>>

\* mutant: a result that is not a success ends the run with a failure
ChatToolEnd_FailureReturns ==
    /\ pc = "chat_running"
    /\ \E done \in execute_tool(CurrentCall.name, CurrentCall.arguments) :
         /\ conversation_history' =
              Append(conversation_history, ToolMessage(done.returned, CurrentCall.id))
         /\ files' = files \cup done.wrote
         /\ spawned' = spawned \cup done.ran
         /\ IF done.returned # ResultOk
            THEN /\ result' = Some(Err("Tool failed"))
                 /\ pc' = "chat_done"
                 /\ UNCHANGED <<idx, iteration>>
            ELSE /\ UNCHANGED result
                 /\ IF idx < Len(tool_calls)
                    THEN /\ idx' = idx + 1
                         /\ pc' = "chat_exec"
                         /\ UNCHANGED iteration
                    ELSE /\ iteration' = iteration + 1
                         /\ pc' = "chat_top"
                         /\ UNCHANGED idx
    /\ UNCHANGED <<max_iterations, total_tool_calls, tool_calls, completions, executed>>
    /\ UNCHANGED stream_locals
    /\ UNCHANGED <<app_mode, enabled_tools, safe_mode, tool_call>>
    /\ UNCHANGED <<text_parser, tkg, deep_research, receiver>>

\* execute_tool returns and its result is appended
ChatToolEnd ==
    /\ pc = "chat_running"
    /\ \E done \in execute_tool(CurrentCall.name, CurrentCall.arguments) :
         /\ conversation_history' =
              Append(conversation_history, ToolMessage(done.returned, CurrentCall.id))
         /\ files' = files \cup done.wrote
         /\ spawned' = spawned \cup done.ran
    /\ IF idx < Len(tool_calls)
       THEN /\ idx' = idx + 1
            /\ pc' = "chat_exec"
            /\ UNCHANGED iteration
       ELSE /\ iteration' = iteration + 1
            /\ pc' = "chat_top"
            /\ UNCHANGED idx
    /\ UNCHANGED <<max_iterations, total_tool_calls, tool_calls, result, completions,
                   executed>>
    /\ UNCHANGED stream_locals
    /\ UNCHANGED <<app_mode, enabled_tools, safe_mode, tool_call>>
    /\ UNCHANGED <<text_parser, tkg, deep_research, receiver>>

\* the `for` of chat is exhausted
ChatMaxIterations ==
    /\ pc = "chat_top"
    /\ ~LoopContinues
    /\ result' = Some(Err(ChatMaxError(max_iterations)))
    /\ pc' = "chat_done"
    /\ UNCHANGED <<conversation_history, max_iterations, iteration, total_tool_calls,
                   tool_calls, idx, completions, executed>>
    /\ UNCHANGED stream_locals
    /\ UNCHANGED <<executor, text_parser, tkg, deep_research, receiver>>

----------------------------------------------------------------------------
(* chat_stream *)

EmptyCall == ToolCall("", "", "")

\* Vec::resize(index + 1, empty call) when index >= len
Resize(calls, index) ==
    IF index >= Len(calls)
    THEN calls \o [i \in 1..(index + 1 - Len(calls)) |-> EmptyCall]
    ELSE calls

\* mutant: a fragment replaces the arguments received so far
ApplyWire_Replaces(calls, w) ==
    LET sized == Resize(calls, w.index)
        old == sized[w.index + 1]
        merged == ToolCall(IF w.id # None THEN w.id[1] ELSE old.id,
                           IF w.name # None THEN w.name[1] ELSE old.name,
                           IF w.arguments # None THEN w.arguments[1]
                           ELSE old.arguments)
    IN  [sized EXCEPT ![w.index + 1] = merged]

\* one entry of delta.tool_calls applied to the accumulated calls
ApplyWire(calls, w) ==
    LET sized == Resize(calls, w.index)
        old == sized[w.index + 1]
        merged == ToolCall(IF w.id # None THEN w.id[1] ELSE old.id,
                           IF w.name # None THEN w.name[1] ELSE old.name,
                           IF w.arguments # None
                           THEN old.arguments \o w.arguments[1]
                           ELSE old.arguments)
    IN  [sized EXCEPT ![w.index + 1] = merged]

RECURSIVE ApplyDelta(_, _)
ApplyDelta(calls, wires) ==
    IF wires = <<>> THEN calls
    ELSE ApplyDelta(ApplyWire(calls, Head(wires)), Tail(wires))

\* chat_stream: structured calls, else text markers, else <tool_code> blocks
StreamExtract(structured, text, base) ==
    IF structured # <<>> THEN structured
    ELSE IF parse_text_tool_calls(text, base) # <<>>
         THEN parse_text_tool_calls(text, base)
         ELSE parse_grok_xml_tools(text, base)

Signature(call) == call.name \o ":" \o call.arguments

\* mutant: one more repeat is let through
RepeatLimitHit_Late(call) ==
    /\ last_tool_call_signature = Some(call.name \o ":" \o call.arguments)
    /\ consecutive_repeats + 1 >= REPEAT_LIMIT + 1

\* the third consecutive call with one signature
RepeatLimitHit(call) ==
    /\ last_tool_call_signature = Some(Signature(call))
    /\ consecutive_repeats + 1 >= REPEAT_LIMIT

\* mutant: the flag is never looked at
StopObserved_Never == FALSE

\* `should_stop.load(Ordering::Relaxed)` at the top of an iteration
StopObserved == should_stop

StartChatStream(n) ==
    /\ pc = "idle"
    /\ pc' = "stream_top"
    /\ max_iterations' = n
    /\ iteration' = 0
    /\ total_tool_calls' = 0
    /\ should_stop' = FALSE
    /\ listening' = TRUE
    /\ last_tool_call_signature' = None
    /\ consecutive_repeats' = 0
    /\ UNCHANGED <<conversation_history, tool_calls, idx, result, completions, executed,
                   stream, full_content, break_outer, emitted>>
    /\ UNCHANGED <<pruned_from, stop_at>>
    /\ UNCHANGED <<executor, text_parser, tkg, deep_research, receiver>>

\* the listener of "stop-generation" runs
StopSignal ==
    /\ listening
    /\ ~should_stop
    /\ should_stop' = TRUE
    /\ UNCHANGED <<conversation_history, pc, max_iterations, iteration, total_tool_calls,
                   tool_calls, idx, stream, full_content, listening, result, emitted,
                   completions, executed>>
    /\ UNCHANGED loop_detection
    /\ stop_at' = Some([pc |-> pc, iteration |-> iteration])
    /\ UNCHANGED pruned_from
    /\ UNCHANGED <<executor, text_parser, tkg, deep_research, receiver>>

\* the check at the top of an iteration finds the flag set
StreamCancelled ==
    /\ pc = "stream_top"
    /\ LoopContinues
    /\ StopObserved
    /\ listening' = FALSE
    /\ emitted' = Append(emitted, StreamChunk(StoppedNotice, TRUE, None))
    /\ result' = Some(OkUnit)
    /\ pc' = "stream_done"
    /\ UNCHANGED <<conversation_history, max_iterations, iteration, total_tool_calls,
                   tool_calls, idx, stream, full_content, should_stop, completions,
                   executed>>
    /\ UNCHANGED loop_detection
    /\ UNCHANGED <<pruned_from, stop_at>>
    /\ UNCHANGED <<executor, text_parser, tkg, deep_research, receiver>>

\* top of an iteration: prune, build the prompt, send the request
StreamRequest(deltas) ==
    /\ pc = "stream_top"
    /\ LoopContinues
    /\ ~StopObserved
    /\ conversation_history' = prune_history(conversation_history)
    /\ completions' = completions + 1
    /\ stream' = deltas
    /\ full_content' = <<>>
    /\ tool_calls' = <<>>
    /\ pc' = "stream_recv"
    /\ UNCHANGED <<max_iterations, iteration, total_tool_calls, idx, should_stop,
                   listening, result, emitted, executed>>
    /\ UNCHANGED loop_detection
    /\ pruned_from' = conversation_history
    /\ UNCHANGED stop_at
    /\ UNCHANGED <<executor, text_parser, tkg, deep_research, receiver>>

\* the request fails or the status is not a success
StreamRequestFails(error) ==
    /\ pc = "stream_top"
    /\ LoopContinues
    /\ ~StopObserved
    /\ conversation_history' = prune_history(conversation_history)
    /\ completions' = completions + 1
    /\ result' = Some(Err(error))
    /\ pc' = "stream_done"
    /\ UNCHANGED <<max_iterations, iteration, total_tool_calls, tool_calls, idx, stream,
                   full_content, should_stop, listening, emitted, executed>>
    /\ UNCHANGED loop_detection
    /\ pruned_from' = conversation_history
    /\ UNCHANGED stop_at
    /\ UNCHANGED <<executor, text_parser, tkg, deep_research, receiver>>

\* one data: line of the response is processed
StreamDelta ==
    /\ pc = "stream_recv"
    /\ stream # <<>>
    /\ LET delta == Head(stream)
       IN  /\ full_content' =
                IF delta.content # None THEN full_content \o delta.content[1]
                ELSE full_content
           /\ emitted' =
                IF delta.content # None
                THEN Append(emitted, StreamChunk(delta.content[1], FALSE, None))
                ELSE emitted
           /\ tool_calls' = ApplyDelta(tool_calls, delta.tool_calls)
    /\ stream' = Tail(stream)
    /\ UNCHANGED <<conversation_history, pc, max_iterations, iteration, total_tool_calls,
                   idx, should_stop, listening, result, completions, executed>>
    /\ UNCHANGED loop_detection
    /\ UNCHANGED <<pruned_from, stop_at>>
    /\ UNCHANGED <<executor, text_parser, tkg, deep_research, receiver>>

\* the byte stream yields an error
\* mutant: the text received so far is kept as an assistant message
StreamError_KeepsPartial ==
    /\ pc = "stream_recv"
    /\ result' = Some(Err("Stream error"))
    /\ pc' = "stream_done"
    /\ conversation_history' =
           Append(conversation_history, AssistantMessage(full_content, tool_calls))
    /\ UNCHANGED <<max_iterations, iteration, total_tool_calls,
                   tool_calls, idx, stream, full_content, should_stop, listening, emitted,
                   completions, executed>>
    /\ UNCHANGED loop_detection
    /\ UNCHANGED <<pruned_from, stop_at>>
    /\ UNCHANGED <<executor, text_parser, tkg, deep_research, receiver>>

StreamError ==
    /\ pc = "stream_recv"
    /\ result' = Some(Err("Stream error"))
    /\ pc' = "stream_done"
    /\ UNCHANGED <<conversation_history, max_iterations, iteration, total_tool_calls,
                   tool_calls, idx, stream, full_content, should_stop, listening, emitted,
                   completions, executed>>
    /\ UNCHANGED loop_detection
    /\ UNCHANGED <<pruned_from, stop_at>>
    /\ UNCHANGED <<executor, text_parser, tkg, deep_research, receiver>>

\* the response is complete: extraction, the assistant message, the final answer
StreamFinish ==
    /\ pc = "stream_recv"
    /\ stream = <<>>
    /\ LET calls == StreamExtract(tool_calls, full_content, total_tool_calls)
       IN  /\ conversation_history' =
                Append(conversation_history, AssistantMessage(full_content, calls))
           /\ tool_calls' = calls
           /\ IF ~NoToolCalls(calls)
              THEN /\ total_tool_calls' = total_tool_calls + Len(calls)
                   /\ emitted' = Append(emitted, StreamChunk(<<>>, FALSE, Some(calls)))
                   /\ break_outer' = FALSE
                   /\ idx' = 1
                   /\ pc' = "stream_exec"
                   /\ UNCHANGED <<listening, result>>
              ELSE /\ emitted' = Append(emitted, StreamChunk(<<>>, TRUE, None))
                   /\ listening' = FALSE
                   /\ result' = Some(OkUnit)
                   /\ pc' = "stream_done"
                   /\ UNCHANGED <<total_tool_calls, break_outer, idx>>
    /\ UNCHANGED <<max_iterations, iteration, stream, full_content, should_stop,
                   last_tool_call_signature, consecutive_repeats, completions, executed>>
    /\ UNCHANGED <<pruned_from, stop_at>>
    /\ UNCHANGED <<executor, text_parser, tkg, deep_research, receiver>>

\* mutant: a different signature leaves the counter as it is
StreamToolBegin_NoReset ==
    /\ pc = "stream_exec"
    /\ ~RepeatLimitHit(CurrentCall)
    /\ consecutive_repeats' =
         IF last_tool_call_signature = Some(Signature(CurrentCall))
         THEN consecutive_repeats + 1
         ELSE consecutive_repeats
    /\ last_tool_call_signature' = Some(Signature(CurrentCall))
    /\ executed' = Append(executed, CurrentCall)
    /\ pc' = "stream_running"
    /\ UNCHANGED <<conversation_history, max_iterations, iteration, total_tool_calls,
                   tool_calls, idx, stream, full_content, should_stop, listening,
                   break_outer, result, emitted, completions>>
    /\ UNCHANGED <<pruned_from, stop_at>>
    /\ UNCHANGED <<executor, text_parser, tkg, deep_research, receiver>>

\* loop detection lets tool_calls[idx] pass and execute_tool is entered
StreamToolBegin ==
    /\ pc = "stream_exec"
    /\ ~RepeatLimitHit(CurrentCall)
    /\ consecutive_repeats' =
         IF last_tool_call_signature = Some(Signature(CurrentCall))
         THEN consecutive_repeats + 1
         ELSE 0
    /\ last_tool_call_signature' = Some(Signature(CurrentCall))
    /\ executed' = Append(executed, CurrentCall)
    /\ pc' = "stream_running"
    /\ UNCHANGED <<conversation_history, max_iterations, iteration, total_tool_calls,
                   tool_calls, idx, stream, full_content, should_stop, listening,
                   break_outer, result, emitted, completions>>
    /\ UNCHANGED <<pruned_from, stop_at>>
    /\ UNCHANGED <<executor, text_parser, tkg, deep_research, receiver>>

\* loop detection stops the loops; the code after the `for` runs
StreamLoopDetected ==
    /\ pc = "stream_exec"
    /\ RepeatLimitHit(CurrentCall)
    /\ consecutive_repeats' = consecutive_repeats + 1
    /\ break_outer' = TRUE
    /\ emitted' = Append(emitted, StreamChunk(<<>>, TRUE, None))
    /\ listening' = FALSE
    /\ result' = Some(Err(StreamMaxError(max_iterations)))
    /\ pc' = "stream_done"
    /\ UNCHANGED <<conversation_history, max_iterations, iteration, total_tool_calls,
                   tool_calls, idx, stream, full_content, should_stop,
                   last_tool_call_signature, completions, executed>>
    /\ UNCHANGED <<pruned_from, stop_at>>
    /\ UNCHANGED <<executor, text_parser, tkg, deep_research, receiver>>

\* execute_tool returns and its result is appended
StreamToolEnd ==
    /\ pc = "stream_running"
    /\ \E done \in execute_tool(CurrentCall.name, CurrentCall.arguments) :
         /\ conversation_history' =
              Append(conversation_history, ToolMessage(done.returned, CurrentCall.id))
         /\ files' = files \cup done.wrote
         /\ spawned' = spawned \cup done.ran
    /\ IF idx < Len(tool_calls)
       THEN /\ idx' = idx + 1
            /\ pc' = "stream_exec"
            /\ UNCHANGED iteration
       ELSE /\ iteration' = iteration + 1
            /\ pc' = "stream_top"
            /\ UNCHANGED idx
    /\ UNCHANGED <<max_iterations, total_tool_calls, tool_calls, stream, full_content,
                   should_stop, listening, result, emitted, completions, executed>>
    /\ UNCHANGED loop_detection
    /\ UNCHANGED <<pruned_from, stop_at>>
    /\ UNCHANGED <<app_mode, enabled_tools, safe_mode, tool_call>>
    /\ UNCHANGED <<text_parser, tkg, deep_research, receiver>>

\* the `for` of chat_stream is exhausted
StreamMaxIterations ==
    /\ pc = "stream_top"
    /\ ~LoopContinues
    /\ emitted' = Append(emitted, StreamChunk(<<>>, TRUE, None))
    /\ listening' = FALSE
    /\ result' = Some(Err(StreamMaxError(max_iterations)))
    /\ pc' = "stream_done"
    /\ UNCHANGED <<conversation_history, max_iterations, iteration, total_tool_calls,
                   tool_calls, idx, stream, full_content, should_stop, completions,
                   executed>>
    /\ UNCHANGED loop_detection
    /\ UNCHANGED <<pruned_from, stop_at>>
    /\ UNCHANGED <<executor, text_parser, tkg, deep_research, receiver>>

----------------------------------------------------------------------------
(* One run of chat or chat_stream on a fresh agent *)

UserContents == {<<Seg("plain", "What is (2+3)*4?")>>}

Next ==
    \/ \E content \in UserContents :
         Len(conversation_history) < MaxUser /\ add_user_message(content)
    \/ \E n \in 0..MaxIter : StartChat(n)
    \/ \E response \in Responses : ChatCompletion(response)
    \/ \E error \in ChatErrors : ChatCompletionFails(error)
    \/ ChatToolBegin
    \/ ChatToolEnd
    \/ ChatMaxIterations
    \/ \E n \in 0..MaxIter : StartChatStream(n)
    \/ StopSignal
    \/ StreamCancelled
    \/ \E deltas \in Streams : StreamRequest(deltas)
    \/ \E error \in RequestErrors : StreamRequestFails(error)
    \/ StreamDelta
    \/ StreamError
    \/ StreamFinish
    \/ StreamToolBegin
    \/ StreamLoopDetected
    \/ StreamToolEnd
    \/ StreamMaxIterations

Spec == Init /\ [][Next]_vars

----------------------------------------------------------------------------
(* A long run of chat_stream, with tools that return large results *)

LongStreams ==
    { <<Delta(None, <<WireCalc>>)>>,
      <<Delta(None, <<WireRead>>)>>,
      <<Delta(None, <<WireCalc, WireRead>>)>>,
      <<Delta(Some(TxtAnswer), <<>>)>> }

NextLong ==
    \/ \E content \in UserContents :
         Len(conversation_history) < MaxUser /\ add_user_message(content)
    \/ StartChatStream(LongIter)
    \/ StopSignal
    \/ StreamCancelled
    \/ \E deltas \in LongStreams : StreamRequest(deltas)
    \/ StreamDelta
    \/ StreamFinish
    \/ StreamToolBegin
    \/ StreamLoopDetected
    \/ StreamToolEnd
    \/ StreamMaxIterations

SpecLong == Init /\ [][NextLong]_vars

----------------------------------------------------------------------------
(* chat_with_agent_stream and chat_with_agent on a loaded history: the   *)
(* first completion request                                              *)

\* `agent.conversation_history.push(msg)` of the command's `messages`
LoadMessage(msg) ==
    /\ pc = "idle"
    /\ conversation_history' = Append(conversation_history, msg)
    /\ UNCHANGED <<pc, max_iterations, iteration, total_tool_calls, tool_calls, idx,
                   result, completions, executed>>
    /\ UNCHANGED stream_locals
    /\ UNCHANGED <<executor, text_parser, tkg, deep_research, receiver>>

LoadedMessages ==
    { UserMessage(<<Padded("plain", "", 2 * MAX_TOKENS)>>),
      AssistantMessage(<<>>, <<ToolCall("a", "read_file", "{\"p\":1}")>>) }

NextPrune ==
    \/ \E msg \in LoadedMessages :
         Len(conversation_history) < MaxHistory /\ LoadMessage(msg)
    \/ StartChatStream(1)
    \/ \E deltas \in {<<>>} : StreamRequest(deltas)
    \/ StreamFinish
    \/ StartChat(1)
    \/ \E response \in {Buffered(TxtAnswer, <<>>)} : ChatCompletion(response)

SpecPrune == Init /\ [][NextPrune]_vars

----------------------------------------------------------------------------
(* Properties *)

Last(seq) == seq[Len(seq)]

InChat == pc \in {"chat_top", "chat_exec", "chat_running", "chat_done"}
InStream == pc \in {"stream_top", "stream_recv", "stream_exec", "stream_running",
                    "stream_done"}
Returned == result # None
ReturnedOk == result # None /\ result[1].ok

AnsweredWithCalls(msg) == msg.role = "assistant" /\ msg.tool_calls # None
IsToolMessage(msg) == msg.role = "tool"

\* every completion call of the run was answered, and with at least one tool call
EveryResponseHadCalls ==
    completions = Len(SelectSeq(conversation_history, AnsweredWithCalls))

\* C1: chat(N) never makes more than N completion calls; it returns the failure
\* "Maximum iterations (N) reached..." only after exactly N of them; and a run in
\* which every completion response carried a tool call ends with exactly that
\* failure after exactly N completion calls, never with Ok.
C1_IterationCap ==
    InChat =>
        /\ completions <= max_iterations
        /\ (result = Some(Err(ChatMaxError(max_iterations)))
                => completions = max_iterations)
        /\ (pc = "chat_done" /\ EveryResponseHadCalls
                => /\ result = Some(Err(ChatMaxError(max_iterations)))
                   /\ completions = max_iterations)

C1_Witness ==
    /\ pc = "chat_done"
    /\ max_iterations = 3
    /\ completions = 3
    /\ Len(executed) >= 3
    /\ result = Some(Err("Maximum iterations (3) reached. The task may be too complex."))

\* C2: when chat returns Ok, iterations is the number of completion calls of the
\* run, tool_calls_made the number of tools executed and of tool messages appended,
\* and content the cleaned text of the last completion response.
C2_ChatResponse ==
    (pc = "chat_done" /\ ReturnedOk) =>
        /\ result[1].iterations = completions
        /\ result[1].tool_calls_made = Len(executed)
        /\ result[1].tool_calls_made = Len(SelectSeq(conversation_history, IsToolMessage))
        /\ result[1].content = clean_content(Last(conversation_history).content)
        /\ \A i \in 1..Len(result[1].content) : result[1].content[i].kind # "think"

C2_Witness ==
    /\ pc = "chat_done"
    /\ completions = 2
    /\ Len(executed) = 1
    /\ result = Some(Ok(TxtAnswer, 1, 2))

\* C3: while a tool call of an iteration is pending or running, the history ends
\* with the assistant message carrying the iteration's calls followed by the tool
\* messages of the calls before it, in order; the calls handed to execute_tool in
\* this iteration are the first ones of the list, in the order of the list.
C3_SequentialInOrder ==
    pc \in {"chat_exec", "chat_running", "stream_exec", "stream_running"} =>
        LET before == idx - 1
            n == Len(conversation_history)
            begun == IF pc \in {"chat_running", "stream_running"} THEN idx ELSE before
        IN  /\ n >= idx
            /\ conversation_history[n - before].role = "assistant"
            /\ conversation_history[n - before].tool_calls = Some(tool_calls)
            /\ \A k \in 1..before :
                 /\ conversation_history[n - before + k].role = "tool"
                 /\ conversation_history[n - before + k].tool_call_id = Some(tool_calls[k].id)
            /\ Len(executed) >= begun
            /\ SubSeq(executed, Len(executed) - begun + 1, Len(executed))
                 = SubSeq(tool_calls, 1, begun)

C3_Witness ==
    /\ pc = "stream_running"
    /\ idx = 2
    /\ tool_calls[1] # tool_calls[2]

\* C5: chat returns Ok, and chat_stream returns Ok after its plain final done
\* chunk, only in an iteration that extracted no tool call: the history then ends
\* with an assistant message without tool calls.
FinalAnswerLast ==
    /\ tool_calls = <<>>
    /\ conversation_history # <<>>
    /\ Last(conversation_history).role = "assistant"
    /\ Last(conversation_history).tool_calls = None

C5_FinalAnswerHasNoCalls ==
    /\ (pc = "chat_done" /\ ReturnedOk) => FinalAnswerLast
    /\ (pc = "stream_done" /\ ReturnedOk /\ Last(emitted) = StreamChunk(<<>>, TRUE, None))
           => FinalAnswerLast

C5_Witness ==
    /\ pc = "stream_done"
    /\ ReturnedOk
    /\ Last(emitted) = StreamChunk(<<>>, TRUE, None)
    /\ completions = 2
    /\ Len(executed) = 1

SameCall(a, b) == a.name = b.name /\ a.arguments = b.arguments

\* the number of calls at the end of the log that equal its last one
RECURSIVE TrailingRun(_)
TrailingRun(log) ==
    IF log = <<>> THEN 0
    ELSE IF Len(log) >= 2 /\ SameCall(log[Len(log) - 1], log[Len(log)])
         THEN 1 + TrailingRun(SubSeq(log, 1, Len(log) - 1))
         ELSE 1

\* C6: in chat_stream the repeat counter counts the consecutive repetitions of the
\* call executed last; a call is never executed a third time in a row; and when the
\* abort is decided the counter stands at 2, the call that would have been the third
\* in a row is not executed, and the loop is still inside its iteration budget.
C6_LoopDetection ==
    InStream =>
        /\ TrailingRun(executed) <= REPEAT_LIMIT
        /\ (~break_outer /\ executed # <<>>
                => consecutive_repeats = TrailingRun(executed) - 1)
        /\ (break_outer
                => /\ pc = "stream_done"
                   /\ consecutive_repeats = REPEAT_LIMIT
                   /\ TrailingRun(executed) = REPEAT_LIMIT
                   /\ SameCall(Last(executed), tool_calls[idx])
                   /\ Len(executed) < total_tool_calls
                   /\ iteration < max_iterations
                   /\ conversation_history[Len(conversation_history) - idx + 1].role
                        = "assistant")

C6_Witness ==
    /\ break_outer
    /\ max_iterations = 3
    /\ completions = 3
    /\ Len(executed) = 2

\* C7: when loop detection aborts chat_stream, the caller gets a dedicated
\* "stopped: repeated call" outcome: not the "Maximum iterations reached" failure,
\* and the final chunk carries a notice.
C7_LoopAbortNotice ==
    break_outer =>
        /\ result # Some(Err(StreamMaxError(max_iterations)))
        /\ Last(emitted).content # <<>>

\* C8: whenever the top of an iteration of chat_stream finds the stop flag set, the
\* only step is the clean return: no completion call, no tool execution, the history
\* untouched, a done chunk with the "Generation stopped by user" notice, and Ok(()).
C8_Cancellation ==
    [][(pc = "stream_top" /\ iteration < max_iterations /\ should_stop)
          => /\ pc' = "stream_done"
             /\ result' = Some(OkUnit)
             /\ completions' = completions
             /\ executed' = executed
             /\ conversation_history' = conversation_history
             /\ emitted' = Append(emitted, StreamChunk(StoppedNotice, TRUE, None))]_vars

C8_Witness ==
    /\ pc = "stream_done"
    /\ result = Some(OkUnit)
    /\ Last(emitted) = StreamChunk(StoppedNotice, TRUE, None)
    /\ stop_at # None
    /\ stop_at[1].pc = "stream_running"
    /\ completions = 1
    /\ max_iterations > 1

\* C9: when the stop flag is raised while the response of an iteration is being
\* received, no tool call of that iteration is executed.
C9_MidStreamAbort ==
    ~ /\ stop_at # None
      /\ stop_at[1].pc = "stream_recv"
      /\ stop_at[1].iteration = iteration
      /\ pc = "stream_running"

\* the index of the assistant message nearest before position i (0: none)
RECURSIVE NearestAssistant(_, _)
NearestAssistant(history, i) ==
    IF i <= 1 THEN 0
    ELSE IF history[i - 1].role = "assistant" THEN i - 1
         ELSE NearestAssistant(history, i - 1)

CallIds(msg) ==
    IF msg.tool_calls = None THEN {}
    ELSE {msg.tool_calls[1][k].id : k \in 1..Len(msg.tool_calls[1])}

\* C4: every tool message of the history carries the id of a tool call of the
\* nearest assistant message before it.
C4_HistoryInvariant ==
    \A i \in 1..Len(conversation_history) :
        conversation_history[i].role = "tool" =>
            /\ conversation_history[i].tool_call_id # None
            /\ NearestAssistant(conversation_history, i) # 0
            /\ conversation_history[i].tool_call_id[1] \in
                 CallIds(conversation_history[NearestAssistant(conversation_history, i)])

\* bytes of the contents and of the tool-call argument strings of a history
RECURSIVE SumTo(_, _)
SumTo(history, n) ==
    IF n = 0 THEN 0
    ELSE SumTo(history, n - 1) + TextLen(history[n].content)
         + (IF history[n].tool_calls = None THEN 0
            ELSE ArgsLen(history[n].tool_calls[1]))

OverCeiling(history) == SumTo(history, Len(history)) \div 4 > 90000

Drop(history, k) == SubSeq(history, k + 1, Len(history))

\* C10: prune_history returns a suffix of the history it is given: the history
\* itself when the estimate (bytes of contents and argument strings, divided by 4)
\* is at most 90,000; otherwise the longest suffix whose estimate is at most 90,000
\* or that has no more than 10 messages; a history of 10 or more messages keeps at
\* least 10.
C10_PruneContract ==
    pc = "stream_recv" =>
        LET removed == Len(pruned_from) - Len(conversation_history)
        IN  /\ removed >= 0
            /\ conversation_history = Drop(pruned_from, removed)
            /\ (~OverCeiling(pruned_from) => removed = 0)
            /\ (Len(pruned_from) >= 10 => Len(conversation_history) >= 10)
            /\ (~OverCeiling(conversation_history) \/ Len(conversation_history) <= 10)
            /\ \A k \in 0..(removed - 1) :
                 OverCeiling(Drop(pruned_from, k)) /\ Len(pruned_from) - k > 10

C10_Witness ==
    /\ pc = "stream_recv"
    /\ Len(pruned_from) = 12
    /\ Len(conversation_history) = 11
    /\ OverCeiling(pruned_from)

IsPrefix(before, after) ==
    /\ Len(before) <= Len(after)
    /\ SubSeq(after, 1, Len(before)) = before

\* C11: the history before a step of the agent is a prefix of the history after
\* it: no message is removed, reordered or rewritten.
C11_AppendOnly ==
    [][IsPrefix(conversation_history, conversation_history')]_vars

\* the tool calls recorded in the assistant messages of a history, in order
RECURSIVE RecordedCalls(_)
RecordedCalls(history) ==
    IF history = <<>> THEN <<>>
    ELSE (IF AnsweredWithCalls(Head(history)) THEN Head(history).tool_calls[1] ELSE <<>>)
         \o RecordedCalls(Tail(history))

\* the tool_call_id of the tool messages of a history, in order
RECURSIVE ResultIds(_)
ResultIds(history) ==
    IF history = <<>> THEN <<>>
    ELSE (IF IsToolMessage(Head(history)) THEN <<Head(history).tool_call_id[1]>> ELSE <<>>)
         \o ResultIds(Tail(history))

\* C12: when chat or chat_stream has ended, the tool calls recorded in the
\* assistant messages of the run are exactly the calls passed to execute_tool,
\* each once, and each has its one tool message in the history.
C12_ConsumedOnce ==
    pc \in {"chat_done", "stream_done"} =>
        LET recorded == RecordedCalls(conversation_history)
        IN  /\ executed = recorded
            /\ ResultIds(conversation_history) =
                 [k \in 1..Len(recorded) |-> recorded[k].id]

agent_run == <<conversation_history, pc, max_iterations, iteration, total_tool_calls,
               tool_calls, idx, stream, full_content, should_stop, listening,
               last_tool_call_signature, consecutive_repeats, break_outer, result,
               emitted, completions, executed, pruned_from, stop_at>>

with_safe_mode(flag) ==
    /\ pc = "idle"
    /\ tool_call = None
    /\ safe_mode' = flag
    /\ UNCHANGED <<app_mode, enabled_tools, files, spawned, tool_call>>
    /\ UNCHANGED <<agent_run, text_parser, tkg, deep_research, receiver>>

with_enabled_tools(map) ==
    /\ pc = "idle"
    /\ tool_call = None
    /\ enabled_tools' = map
    /\ UNCHANGED <<app_mode, safe_mode, files, spawned, tool_call>>
    /\ UNCHANGED <<agent_run, text_parser, tkg, deep_research, receiver>>

\* the first call of execute_tool on the configured agent, from its first line
\* to its return
ExecuteTool(tool_name, arguments, env) ==
    /\ pc = "idle"
    /\ tool_call = None
    /\ LET done == ExecuteToolOutcome(tool_name, arguments, env)
       IN  /\ files' = files \cup done.wrote
           /\ spawned' = spawned \cup done.ran
           /\ tool_call' = Some([tool_name |-> tool_name, arguments |-> arguments,
                                 returned |-> done.returned, handler |-> done.handler,
                                 wrote |-> done.wrote, ran |-> done.ran])
    /\ UNCHANGED <<app_mode, enabled_tools, safe_mode>>
    /\ UNCHANGED <<agent_run, text_parser, tkg, deep_research, receiver>>

----------------------------------------------------------------------------
(* Calls of execute_tool on an agent configured by its builders *)


ToolCalls ==
    {<<"write_file", WriteArgs(path)>> : path \in WritePaths}
    \cup {<<"write_file_batch", BatchArgs(file_list)>> :
            file_list \in {<<>>, <<FileObj(PathSrc)>>,
                           <<FileObj(PathSrc), FileObj(PathOutside)>>,
                           <<FileObj(PathTraversal), FileObj(PathGuide)>>}}
    \cup {<<"run_terminal_command", [NoFields EXCEPT !.command = Some("dir")]>>}
    \cup {<<"canvas_update", [NoFields EXCEPT !.action = Some(action)]>> :
            action \in {"clear", "zoom"}}
    \cup {<<"calculate", [NoFields EXCEPT !.expression = Some(expression)]>> :
            expression \in {"(2+3)*4", "rm"}}
    \cup {<<"harvest_wiki", [NoFields EXCEPT !.query = Some("Dragon")]>>}
    \cup {<<tool_name, arguments>> :
            tool_name \in register_tools \cup {"no_such_tool"},
            arguments \in {NoFields, NotJson}}

\* what the machine does to the call: nothing special, no knowledge base root,
\* an I/O error, no app handle on the agent
Envs == {"ok", "no_root", "io_error", "no_handle"}

ToggleNames == {"write_file", "run_terminal_command"}
SessionMaps == UNION {[names -> BOOLEAN] : names \in SUBSET ToggleNames}

InitTools ==
    /\ \E current \in AppModes : new(current)
    /\ ParserAtRest /\ TkgAtRest /\ ResearchAtRest /\ ReceiverAtRest

NextTools ==
    \/ \E flag \in BOOLEAN : with_safe_mode(flag)
    \/ \E map \in SessionMaps : with_enabled_tools(map)
    \/ \E call \in ToolCalls, env \in Envs : ExecuteTool(call[1], call[2], env)

SpecTools == InitTools /\ [][NextTools]_vars

----------------------------------------------------------------------------
(* Properties of execute_tool *)

Called == tool_call # None
Envelope == tool_call[1].returned.parse
ModeLocked == {"run_terminal_command", "write_file_batch"}
NothingDone == tool_call[1].wrote = {} /\ tool_call[1].ran = {}

\* C13: in Student mode a call of run_terminal_command or write_file_batch
\* returns the failure envelope of the mode lock, whatever the enabled-tools map
\* and the safe-mode flag are, without entering a handler, writing or spawning;
\* and neither tool is among the tools sent to the model.
C13_ModeLock ==
    app_mode = "Student" =>
        /\ get_enabled_tools \cap ModeLocked = {}
        /\ (Called /\ tool_call[1].tool_name \in ModeLocked
                => /\ Envelope = Failure(ModeLockMessage(tool_call[1].tool_name))
                   /\ tool_call[1].handler = ""
                   /\ NothingDone)

C13_Witness ==
    /\ Called
    /\ app_mode = "Student"
    /\ safe_mode
    /\ "run_terminal_command" \in DOMAIN enabled_tools
    /\ ~enabled_tools["run_terminal_command"]
    /\ tool_call[1].tool_name = "run_terminal_command"
    /\ tool_call[1].arguments.command = Some("dir")
    /\ Envelope = Failure(ModeLockMessage("run_terminal_command"))

MappedFalse(tool_name) ==
    /\ DOMAIN enabled_tools # {}
    /\ tool_name \in DOMAIN enabled_tools
    /\ enabled_tools[tool_name] = FALSE

\* C14: a call that passes the mode lock is rejected by the session toggle if and
\* only if the enabled-tools map is non-empty and maps the tool to false; and a
\* registered tool is sent to the model exactly when neither the mode lock nor
\* the session toggle rejects a call of it.
C14_SessionToggle ==
    /\ \A t \in register_tools :
         t \in get_enabled_tools <=> ~(app_mode = "Student" /\ t \in ModeLocked)
                                     /\ ~MappedFalse(t)
    /\ Called =>
         LET t == tool_call[1].tool_name
             by_mode == Envelope = Failure(ModeLockMessage(t))
             by_session == Envelope = Failure(SessionMessage(t))
         IN  /\ (~by_mode => (by_session <=> MappedFalse(t)))
             /\ (by_session => tool_call[1].handler = "" /\ NothingDone)
             /\ (t \in register_tools
                    => (t \in get_enabled_tools <=> ~by_mode /\ ~by_session))

C14_Witness ==
    /\ Called
    /\ app_mode = "Developer"
    /\ DOMAIN enabled_tools = {"write_file", "run_terminal_command"}
    /\ ~enabled_tools["write_file"]
    /\ enabled_tools["run_terminal_command"]
    /\ tool_call[1].tool_name = "write_file"
    /\ tool_call[1].arguments = WriteArgs(PathSrc)
    /\ Envelope = Failure(SessionMessage("write_file"))
    /\ get_enabled_tools = register_tools \ {"write_file"}

\* the modelled tools that write files or start a process
MutatingTools == {"write_file", "write_file_batch", "run_terminal_command", "harvest_wiki"}

\* C15: with the safe-mode flag set, a call of a tool that writes files or starts
\* a process is rejected with a failure envelope and writes and spawns nothing.
C15_SafeMode ==
    Called /\ safe_mode /\ tool_call[1].tool_name \in MutatingTools =>
        /\ NothingDone
        /\ Envelope.kind = "object"
        /\ Envelope.success = Some(FALSE)

HasDotDotSegment(path) == \E k \in 1..Len(path) : path[k] = ".."

AllowListed(path) ==
    \/ \E prefix \in ScopePrefixes : StartsWith(NormalizeSeparators(path), prefix)
    \/ NormalizeSeparators(path) \in {<<"README.md">>, <<"package.json">>}

OutOfScope(path) == HasDotDotSegment(path) \/ ~AllowListed(path)

\* the paths of the entries of a batch that carry a path and a content
BatchTargets(file_list) ==
    {file_list[k].path[1] :
        k \in {n \in 1..Len(file_list) :
                 file_list[n].path # None /\ file_list[n].content # None}}

\* the paths a call of a file-writing tool is to write
Targets(call) ==
    IF ~call.arguments.json THEN {}
    ELSE IF call.tool_name = "write_file"
         /\ call.arguments.path # None /\ call.arguments.content # None
    THEN {call.arguments.path[1]}
    ELSE IF call.tool_name = "write_file_batch" /\ call.arguments.files # None
    THEN BatchTargets(call.arguments.files[1])
    ELSE IF call.tool_name = "harvest_wiki" /\ call.arguments.query # None
    THEN {HarvestPath(call.arguments.query[1])}
    ELSE {}

\* the envelope reports an error for path: the failure shape, or for a batch
\* that passed its gates a failed entry for the path
ReportsError(envelope, path) ==
    \/ envelope.success = Some(FALSE) /\ envelope.error # None
    \/ \E k \in 1..Len(envelope.results) :
         /\ envelope.results[k].path = path
         /\ ~envelope.results[k].success
         /\ envelope.results[k].error # None

\* C16: a target path of a file-writing tool that has a `..` segment, or whose
\* separator-normalized form starts with no allow-listed prefix, is not written
\* and is reported as an error.
C16_WriteScope ==
    Called =>
        \A path \in Targets(tool_call[1]) :
            OutOfScope(path) =>
                /\ path \notin tool_call[1].wrote
                /\ Envelope.kind = "object"
                /\ ReportsError(Envelope, path)

\* the path is `research`, `generated-guides`, or lies below one of them
InStudentSubtree(path) ==
    LET normalized == NormalizeSeparators(path)
    IN  /\ normalized # <<>>
        /\ normalized[1] \in {"research", "generated-guides"}
        /\ (Len(normalized) = 1 \/ normalized[2] = "/")

\* the call of write_file got past validate_write_scope and the Student test
PassedWriteGates ==
    /\ tool_call[1].handler = "write_file"
    /\ Envelope.error \notin
         {Some(validate_write_scope(tool_call[1].arguments.path[1]).error),
          Some(StudentScopeMessage)}

\* C17: in Student mode write_file lets a relative path without `..` segments
\* past its policy gates if and only if the path is in the research or the
\* generated-guides subtree; in Developer mode is_allowed_write_path accepts
\* every path.
C17_StudentScope ==
    /\ app_mode = "Developer" => \A path \in WritePaths : is_allowed_write_path(path)
    /\ (Called /\ app_mode = "Student" /\ tool_call[1].handler = "write_file"
              /\ Targets(tool_call[1]) # {})
         => \A path \in Targets(tool_call[1]) :
              (~HasDotDotSegment(path) /\ WithinRoot(path))
                 => (PassedWriteGates <=> InStudentSubtree(path))

\* C18: a call of write_file or write_file_batch with a target path that
\* validate_write_scope refuses writes no file at all and returns the failure
\* envelope.
C18_NoPartialWrite ==
    (/\ Called
     /\ tool_call[1].handler \in {"write_file", "write_file_batch"}
     /\ \E path \in Targets(tool_call[1]) : ~validate_write_scope(path).ok)
        => /\ tool_call[1].wrote = {}
           /\ Envelope.success = Some(FALSE)
           /\ Envelope.error # None

\* C19: execute_tool returns the text of a JSON object, and an envelope that
\* does not report success has `success` = false and an `error` message.
C19_ResultEnvelope ==
    Called =>
        /\ Envelope.kind = "object"
        /\ (Envelope.success # Some(TRUE)
                => Envelope.success = Some(FALSE) /\ Envelope.error # None)

----------------------------------------------------------------------------
(* Properties of the tool-call extraction *)

\* calls is the list of the structured entries of wire, one call per entry
ExactlyStructured(calls, wire) ==
    /\ Len(calls) = Len(wire)
    /\ \A k \in 1..Len(wire) :
         /\ wire[k].id = Some(calls[k].id)
         /\ wire[k].name = Some(calls[k].name)
         /\ wire[k].arguments = Some(calls[k].arguments)

ChatStructuredFirst ==
    \A response \in Responses :
        (response.tool_calls # <<>> /\ ChatCompletion(response))
            => ExactlyStructured(tool_calls', response.tool_calls)

StreamStructuredFirst ==
    pc = "stream_recv" =>
        /\ (stream # <<>> /\ Head(stream).tool_calls # <<>> /\ stream' # stream)
              => tool_calls' # <<>>
        /\ (stream # <<>> /\ tool_calls # <<>>) => tool_calls' # <<>>
        /\ (stream = <<>> /\ tool_calls # <<>>) => tool_calls' = tool_calls

\* C20: when the completion response of an iteration carries structured tool
\* calls, the tool-call list of the iteration is exactly those calls; nothing is
\* extracted from the text of the response.
C20_StructuredPrecedence == [][ChatStructuredFirst /\ StreamStructuredFirst]_vars

----------------------------------------------------------------------------
(* Text extraction on its own: the functions applied to one assistant text *)

\* largest base_call_index handed to the text extraction
MaxBase == 2

SingleObject ==
    Obj(<<<<"tool", Str("calculate")>>,
          <<"args", Obj(<<<<"expression", Str("1+1")>>>>)>>>>)
ToolA == Obj(<<<<"tool", Str("a")>>, <<"args", Obj(<<>>)>>>>)
ToolB == Obj(<<<<"tool", Str("b")>>, <<"args", Obj(<<>>)>>>>)
NamedRead ==
    Obj(<<<<"name", Str("read_file")>>,
          <<"arguments", Obj(<<<<"path", Str("a.md")>>>>)>>>>)
FunctionForm ==
    Obj(<<<<"function", Obj(<<<<"name", Str("calculate")>>,
                              <<"arguments", Str("{\"expression\":\"2\"}")>>>>)>>>>)
NumberTool == Obj(<<<<"tool", Num(5)>>, <<"name", Str("a")>>>>)
Unnamed == Obj(<<<<"note", Str("x")>>>>)
SelfNamed ==
    Obj(<<<<"tool", Str("read_file")>>,
          <<"args", Obj(<<<<"path", Str("read_file.md")>>>>)>>>>)
ArgsFirst ==
    Obj(<<<<"args", Obj(<<<<"path", Str("a.md")>>>>)>>, <<"tool", Str("read_file")>>>>)

BlkSingle ==
    ToolBlock("[TOOL]{\"tool\":\"calculate\",\"args\":{\"expression\":\"1+1\"}}[/TOOL]",
              JsonContent(<<SingleObject>>))
BlkArray ==
    ToolBlock("[TOOL][{\"tool\":\"a\",\"args\":{}},{\"tool\":\"b\",\"args\":{}}][/TOOL]",
              JsonContent(<<Arr(<<ToolA, ToolB>>)>>))
BlkConcatenated ==
    ToolBlock("[TOOL]{\"tool\":\"a\",\"args\":{}} {\"tool\":\"b\",\"args\":{}}[/TOOL]",
              JsonContent(<<ToolA, ToolB>>))
BlkMixed ==
    ToolBlock("[TOOL_CALL][{\"tool\":\"a\",\"args\":{}},5,{\"note\":\"x\"},{\"name\":\"read_file\",\"arguments\":{\"path\":\"a.md\"}}][/TOOL_CALL]",
              JsonContent(<<Arr(<<ToolA, Num(5), Unnamed, NamedRead>>)>>))
BlkFunction ==
    ToolBlock("[TOOL]{\"function\":{\"name\":\"calculate\",\"arguments\":\"{\\\"expression\\\":\\\"2\\\"}\"}}[/TOOL]",
              JsonContent(<<FunctionForm>>))
BlkNumberTool ==
    ToolBlock("[TOOL]{\"tool\":5,\"name\":\"a\"}[/TOOL]", JsonContent(<<NumberTool>>))
BlkXml ==
    XmlBlock("<tool_code>{\"name\":\"read_file\",\"arguments\":{\"path\":\"a.md\"}}</tool_code>",
             Some(NamedRead))
BlkXmlToolKey ==
    XmlBlock("<tool_code>{\"tool\":\"a\",\"args\":{}}</tool_code>", Some(ToolA))
BlkXmlArray ==
    XmlBlock("<tool_code>[{\"name\":\"read_file\",\"arguments\":{\"path\":\"a.md\"}},{\"note\":\"x\"}]</tool_code>",
             Some(Arr(<<NamedRead, Unnamed>>)))
BlkXmlBroken == XmlBlock("<tool_code>read_file a.md</tool_code>", None)
\* blocks whose content is not JSON (the first value does not parse) and in
\* which name_regex finds no `tool =>` / `name:` followed by a quoted name
MalformedContent == [values |-> <<>>, legacy |-> [name |-> None, args |-> None]]
BlkMalformed == ToolBlock("[TOOL]calculate(1+1)[/TOOL]", MalformedContent)
BlkTruncated ==
    ToolBlock("[TOOL_CALL]{\"tool\":\"calculate\",\"args\":{[/TOOL_CALL]", MalformedContent)
BareSingle ==
    BareJson("{\"tool\":\"calculate\",\"args\":{\"expression\":\"1+1\"}}", SingleObject)
BareSelfNamed ==
    BareJson("{\"tool\":\"read_file\",\"args\":{\"path\":\"read_file.md\"}}", SelfNamed)
BareArgsFirst ==
    BareJson("{\"args\":{\"path\":\"a.md\"},\"tool\":\"read_file\"}", ArgsFirst)
Prose == Seg("plain", "Let me check.")

\* the source text of a legacy-grammar block and what the regexes find in it
LegacyBlocks ==
    { <<"[TOOL]tool => \"calculate\"\nargs => {\n  \"expression\": \"1+1\"\n}[/TOOL]",
        LegacyContent(Some("calculate"),
                      Some(JsonArgs(Obj(<<<<"expression", Str("1+1")>>>>))))>>,
      <<"[TOOL]tool => \"calculate\"\nargs => { expression => \"1+1\" }[/TOOL]",
        LegacyContent(Some("calculate"),
                      Some(ArrowArgs(<<<<"expression", "1+1">>>>)))>>,
      <<"[TOOL]tool => \"list_files\"\nargs => {}[/TOOL]",
        LegacyContent(Some("list_files"), Some(JsonArgs(Obj(<<>>))))>>,
      <<"[TOOL_CALL]name: \"list_files\"[/TOOL_CALL]",
        LegacyContent(Some("list_files"), None)>>,
      <<"[TOOL]tool => \"search\"\nargs => {\"options\":{\"depth\":\"2\"},\"query\":\"tla\"}[/TOOL]",
        LegacyContent(Some("search"),
                      Some(JsonArgs(Obj(<<<<"options", Obj(<<<<"depth", Str("2")>>>>)>>,
                                          <<"query", Str("tla")>>>>))))>>,
      <<"[TOOL]tool => \"search\"\nargs => {\"queries\":[\"a\",\"b\"]}[/TOOL]",
        LegacyContent(Some("search"),
                      Some(JsonArgs(Obj(<<<<"queries", Arr(<<Str("a"), Str("b")>>)>>>>))))>> }

LegacyText(block) == <<Prose, ToolBlock(block[1], block[2])>>

ParserTexts ==
    { <<Prose>>,
      <<BlkSingle>>, <<Prose, BlkArray>>, <<BlkConcatenated>>, <<BlkMixed>>,
      <<BlkFunction>>, <<BlkNumberTool>>,
      <<BlkSingle, Prose, BlkArray>>, <<BlkConcatenated, BlkMixed, BlkSingle>>,
      <<BlkXml>>, <<BlkXmlToolKey>>, <<BlkXmlArray>>, <<BlkXmlBroken>>,
      <<BlkXml, BlkXml>>,
      <<Prose, BareSingle>>, <<BareSelfNamed, Prose, BareSelfNamed>>,
      <<BareSingle, BareSelfNamed>>, <<BareArgsFirst>>,
      <<BlkXml, Prose, BareSingle>>, <<BareSingle, BlkXml>>,
      <<BlkSingle, BlkXml, BareSelfNamed>>, <<BlkNumberTool, BlkXml>>,
      <<BlkXmlBroken, BareSingle>>,
      <<BlkMalformed>>, <<BlkMalformed, BlkSingle>>,
      <<BlkSingle, BlkTruncated, BlkArray>>, <<BlkTruncated, Prose, BareSingle>>,
      <<BlkMalformed, BlkTruncated, BlkXml>> }
    \cup { LegacyText(block) : block \in LegacyBlocks }

Extraction(by, calls) == [by |-> by, calls |-> calls]

\* parse_text_tool_calls(text, base_call_index)
ParseTextToolCalls ==
    /\ response_text # None /\ extracted = None
    /\ extracted' = Some(Extraction("parse_text_tool_calls",
                             parse_text_tool_calls(response_text[1], call_base)))
    /\ UNCHANGED <<response_text, call_base>>
    /\ UNCHANGED <<agent_run, executor, tkg, deep_research, receiver>>

\* parse_grok_xml_tools(text, base_call_index)
ParseGrokXmlTools ==
    /\ response_text # None /\ extracted = None
    /\ extracted' = Some(Extraction("parse_grok_xml_tools",
                             parse_grok_xml_tools(response_text[1], call_base)))
    /\ UNCHANGED <<response_text, call_base>>
    /\ UNCHANGED <<agent_run, executor, tkg, deep_research, receiver>>

\* chat on a response without structured calls: `if tool_calls.is_empty()`
ChatTextExtraction ==
    /\ response_text # None /\ extracted = None
    /\ extracted' = Some(Extraction("chat",
                             ChatExtract(Buffered(response_text[1], <<>>), call_base)))
    /\ UNCHANGED <<response_text, call_base>>
    /\ UNCHANGED <<agent_run, executor, tkg, deep_research, receiver>>

\* chat_stream on a stream without structured calls
StreamTextExtraction ==
    /\ response_text # None /\ extracted = None
    /\ extracted' = Some(Extraction("chat_stream",
                             StreamExtract(<<>>, response_text[1], call_base)))
    /\ UNCHANGED <<response_text, call_base>>
    /\ UNCHANGED <<agent_run, executor, tkg, deep_research, receiver>>

InitParse ==
    /\ new("Developer") /\ TkgAtRest /\ ResearchAtRest /\ ReceiverAtRest
    /\ response_text \in { Some(text) : text \in ParserTexts }
    /\ call_base \in 0..MaxBase
    /\ extracted = None

NextParse ==
    \/ ParseTextToolCalls
    \/ ParseGrokXmlTools
    \/ ChatTextExtraction
    \/ StreamTextExtraction

SpecParse == InitParse /\ [][NextParse]_vars

\* name and arguments of each call, the ids left out
Named(calls) == [n \in 1..Len(calls) |-> Fn(calls[n].name, calls[n].arguments)]

\* what the bare {"tool": ...} objects of a text yield when they are scanned
BareCalls(text) == Named(bare_json(TextObjects(text), 0, <<>>))

\* C21: the text extraction of chat_stream tries the bracketed blocks, then
\* the <tool_code> blocks, then the bare {"tool": ...} objects, and the first
\* source that yields a call is the only one used; in particular a text
\* without bracketed block that holds a <tool_code> call and a bare object
\* yields the <tool_code> call only.
C21_ExtractionOrder ==
    (extracted # None /\ extracted[1].by = "chat_stream") =>
        LET text == response_text[1]
            bracketed == BlockCalls(text, "tool")
            xml == BlockCalls(text, "xml")
        IN  Named(extracted[1].calls) =
                IF bracketed # <<>> THEN bracketed
                ELSE IF xml # <<>> THEN xml
                ELSE BareCalls(text)

\* reached by the counterexample: a <tool_code> call and a bare object, and
\* the calls returned are not the <tool_code> calls
C21_BareBeforeXml ==
    /\ extracted # None /\ extracted[1].by = "chat_stream"
    /\ BlockCalls(response_text[1], "tool") = <<>>
    /\ BlockCalls(response_text[1], "xml") # <<>>
    /\ BareCalls(response_text[1]) # <<>>
    /\ Named(extracted[1].calls) = BareCalls(response_text[1])

\* the name of the tool an object of a bracketed block names, if any
ToolName(object) ==
    and_then_as_str(or_else(get(object, "tool"),
                    or_else(get(object, "name"),
                            and_then_get(get(object, "function"), "name"))))

\* the tool objects written in the bracketed blocks of a text, in source order
ToolObjects(text) ==
    SelectSeq(TextObjects(SelectSeq(text, LAMBDA seg : seg.kind = "tool")),
              LAMBDA object : ToolName(object) # None)

\* C22: when the bracketed blocks of a text hold tool objects (one, an array
\* of them, or several concatenated), parse_text_tool_calls returns exactly
\* one call per tool object, in source order across the blocks, the n-th
\* (0-based) with the id call_{base_index + n}; the ids are pairwise distinct.
C22_OnePerToolObject ==
    (/\ extracted # None
     /\ extracted[1].by = "parse_text_tool_calls"
     /\ ToolObjects(response_text[1]) # <<>>) =>
        LET objects == ToolObjects(response_text[1])
            calls == extracted[1].calls
        IN  /\ Len(calls) = Len(objects)
            /\ \A n \in 1..Len(calls) :
                /\ calls[n].name = ToolName(objects[n])[1]
                /\ calls[n].id = "call_" \o ToString(call_base + (n - 1))
            /\ \A m, n \in 1..Len(calls) : m # n => calls[m].id # calls[n].id

\* an array block and a block of concatenated objects in one text, extracted
\* from a base index that is not zero
C22_Witness ==
    /\ extracted # None
    /\ extracted[1].by = "parse_text_tool_calls"
    /\ response_text = Some(<<BlkConcatenated, BlkMixed, BlkSingle>>)
    /\ call_base > 0
    /\ Len(extracted[1].calls) = 5

\* the argument object a legacy block is written with
ArgumentObject(legacy) ==
    IF legacy.args = None THEN Obj(<<>>)
    ELSE IF legacy.args[1].style = "json" THEN legacy.args[1].object
    ELSE Obj(args_map(legacy.args[1].pairs))

\* the JSON-format block {"tool": name, "args": {...}} of a legacy block
JsonEquivalent(legacy) ==
    ToolBlock("[TOOL]{\"tool\": ..., \"args\": ...}[/TOOL]",
              JsonContent(<<Obj(<<<<"tool", Str(legacy.name[1])>>,
                                  <<"args", ArgumentObject(legacy)>>>>)>>))

\* C23: a bracketed block in the legacy grammar yields exactly one call, and
\* its name and argument string are those the JSON-format block with the
\* same tool name and argument object yields.
C23_LegacyJsonEquivalence ==
    \A block \in LegacyBlocks :
        (/\ extracted # None
         /\ extracted[1].by = "parse_text_tool_calls"
         /\ response_text = Some(LegacyText(block))) =>
            /\ Len(extracted[1].calls) = 1
            /\ Named(extracted[1].calls) =
                   Named(parse_text_tool_calls(<<Prose, JsonEquivalent(block[2].legacy)>>,
                                               call_base))

----------------------------------------------------------------------------
(* tkg.rs: f32 arithmetic.  An f32 is kept as the integer number of units of
   2^-27 it is worth; every f32 the evaluation meets is zero or at least
   2^-4, and so a whole number of units. *)

\* 1.0f32
f32_1_0 == 134217728
\* the weights 0.95f32, 0.9f32, 0.85f32, 0.8f32, 0.7f32
f32_0_95 == 127506840
f32_0_9 == 120795952
f32_0_85 == 114085072
f32_0_8 == 107374184
f32_0_7 == 93952408
\* the boosts 0.1f32 and 0.15f32
f32_0_1 == 13421773
f32_0_15 == 20132660
\* the thresholds 0.5f32 and 0.3f32
f32_0_5 == 67108864
f32_0_3 == 40265320
\* 2^24 units: below it the spacing of the f32 values is one unit
f32_dense == 16777216

\* the spacing of the f32 values around n units (24 bits of significand)
RECURSIVE ulp(_, _)
ulp(n, spacing) == IF n < f32_dense * spacing THEN spacing ELSE ulp(n, 2 * spacing)

\* num / den rounded to the nearest f32, ties to even
f32_div(num, den) ==
    LET step == den * ulp(num \div den, 1)
        q == num \div step
        r == num % step
    IN  (IF 2 * r > step \/ (2 * r = step /\ q % 2 = 1) THEN q + 1 ELSE q)
        * (step \div den)

\* a + b in f32
f32_add(a, b) == f32_div(a + b, 1)

\* f32::min
f32_min(a, b) == IF a < b THEN a ELSE b

----------------------------------------------------------------------------
(* tkg.rs: WAMA.  A content is its characters `s` followed by `pad` further
   bytes of filler (full stops). *)

Content(s, pad) == [s |-> s, pad |-> pad]

\* String::len
len(content) == Len(content.s) + content.pad

UPPER == <<"A", "B", "C", "D", "E", "F", "G", "H", "I", "J", "K", "L", "M",
           "N", "O", "P", "Q", "R", "S", "T", "U", "V", "W", "X", "Y", "Z">>
LOWER == <<"a", "b", "c", "d", "e", "f", "g", "h", "i", "j", "k", "l", "m",
           "n", "o", "p", "q", "r", "s", "t", "u", "v", "w", "x", "y", "z">>

\* char::is_uppercase
is_uppercase(c) == \E i \in 1..Len(UPPER) : UPPER[i] = c

\* str::to_lowercase
RECURSIVE to_lowercase(_)
to_lowercase(s) ==
    IF Len(s) = 0 THEN s
    ELSE LET c == SubSeq(s, 1, 1)
         IN  (IF is_uppercase(c)
              THEN LOWER[CHOOSE i \in 1..Len(UPPER) : UPPER[i] = c]
              ELSE c)
             \o to_lowercase(SubSeq(s, 2, Len(s)))

\* `a.contains(k1) || a.contains(k2) || ...`
contains_any(text, keywords) == \E k \in keywords : contains(text.s, k)

\* the Vec `criteria`: name and weight, in order
criteria ==
    << <<"Learning & Growth", f32_0_95>>,
       <<"Reminders & Deadlines", f32_0_95>>,
       <<"Personal Preference", f32_0_9>>,
       <<"Goals & Objectives", f32_0_85>>,
       <<"Important Facts", f32_0_85>>,
       <<"Technical Details", f32_0_8>>,
       <<"Names & Specifics", f32_0_8>>,
       <<"Context-Rich Content", f32_0_7>> >>

\* the matcher closure of the n-th criterion
matcher(n, text) ==
    CASE n = 1 -> contains_any(text, {"learning", "studying", "practicing", "trying to"})
      [] n = 2 -> contains_any([text EXCEPT !.s = to_lowercase(text.s)],
                               {"remind me", "don't forget", "remember to", "todo",
                                "deadline", "by ", "before ", "need to"})
      [] n = 3 -> contains_any(text, {"prefer", "like", "use ", "love"})
      [] n = 4 -> contains_any(text, {"goal", "plan", "want to", "need to"})
      [] n = 5 -> contains_any(text, {"important", "key", "critical", "vital"})
      [] n = 6 -> contains_any(text, {"command", "code", "setup", "config", "install"})
      [] n = 7 -> \/ \E i \in 1..Len(text.s) : is_uppercase(SubSeq(text.s, i, i))
                  \/ contains_any(text, {"'", "\""})
      [] n = 8 -> /\ len(text) > 50
                  /\ contains_any(text, {"because", "since", "however"})

\* the indices of the criteria whose matcher accepts the text, in order
matched_criteria(text) ==
    SelectSeq([n \in 1..Len(criteria) |-> n], LAMBDA n : matcher(n, text))

\* `total_score += *weight` over the matched criteria
RECURSIVE total_score(_)
total_score(matched) ==
    IF matched = <<>> THEN 0
    ELSE f32_add(total_score(SubSeq(matched, 1, Len(matched) - 1)),
                 criteria[matched[Len(matched)]][2])

\* mutant: the sum is divided by the number of criteria
final_score_OverAll(total, matched) ==
    IF matched = <<>> THEN 0
    ELSE f32_min(f32_div(total, Len(criteria)), f32_1_0)

\* `let final_score = if matched_criteria.is_empty() { 0.0 } else { ... }`
final_score(total, matched) ==
    IF matched = <<>> THEN 0
    ELSE f32_min(f32_div(total, Len(matched)), f32_1_0)

\* mutant: the cap after the boosts is left out
cap_Missing(score) == score

\* `modified_score = modified_score.min(1.0)`
cap(score) == f32_min(score, f32_1_0)

\* the three context modifiers and the cap
modified_score(content, content_lower, score) ==
    LET user == IF contains_any(content_lower, {"user", "my"})
                THEN f32_add(score, f32_0_1) ELSE score
        marked == IF contains_any(content_lower, {"!", "important"})
                  THEN f32_add(user, f32_0_15) ELSE user
        long == IF len(content) > 100 THEN f32_add(marked, f32_0_1) ELSE marked
    IN  cap(long)

\* mutant: PrioritySave starts at 0.8
decide_Shifted(score) ==
    IF score >= f32_0_9 THEN "ImmediateCascade"
    ELSE IF score >= f32_0_8 THEN "PrioritySave"
    ELSE IF score >= f32_0_5 THEN "BatchQueue"
    ELSE IF score >= f32_0_3 THEN "Consider"
    ELSE "LetFade"

\* `let decision = if modified_score >= 0.9 { ... }`
decide(score) ==
    IF score >= f32_0_9 THEN "ImmediateCascade"
    ELSE IF score >= f32_0_7 THEN "PrioritySave"
    ELSE IF score >= f32_0_5 THEN "BatchQueue"
    ELSE IF score >= f32_0_3 THEN "Consider"
    ELSE "LetFade"

\* evaluate_with_wama(content): (decision, modified_score)
evaluate_with_wama(content) ==
    LET content_lower == [content EXCEPT !.s = to_lowercase(content.s)]
        matched == matched_criteria(content_lower)
        score == modified_score(content, content_lower,
                                final_score(total_score(matched), matched))
    IN  <<decide(score), score>>

----------------------------------------------------------------------------
(* tkg.rs: the store path.  What leaves the process is recorded in tkg_trace:
   each WAMA evaluation, each request to the embedding provider and each
   upsert request to the vector store. *)

Event(event, payload) == [event |-> event, payload |-> payload]

StoreOk(value) == [ok |-> TRUE, value |-> value]
StoreErr(value) == [ok |-> FALSE, value |-> value]

\* a request to the embedding provider, and whether it is answered with an
\* embedding
Request(text, answered) == [text |-> text, answered |-> answered]

\* mutant: nothing is rejected
is_let_fade_Never(decision) == FALSE

\* `SaveDecision::LetFade =>` / `matches!(decision, SaveDecision::LetFade)`
is_let_fade(decision) == decision = "LetFade"

\* the JSON object `payload` of store_knowledge
Payload(content, decision, score) ==
    [content |-> content, wama_decision |-> decision, wama_score |-> score]

\* TemporalKnowledgeGraph::store_knowledge: the events it causes and what it
\* returns.  env: "ok", "embed_fails" (embed_text returns Err) or
\* "upsert_fails" (the PUT fails or is answered with an error status).
store_knowledge(content, env) ==
    LET wama == evaluate_with_wama(content)
        evaluated == <<Event("wama", wama)>>
        embedded == evaluated \o <<Event("embed", Request(content, env # "embed_fails"))>>
        upserted == embedded \o <<Event("upsert", Payload(content, wama[1], wama[2]))>>
    IN  IF is_let_fade(wama[1])
        THEN [events |-> evaluated, result |-> StoreErr("WAMA Decision: LET_FADE")]
        ELSE IF env = "embed_fails"
        THEN [events |-> embedded, result |-> StoreErr("Failed to call Cohere API")]
        ELSE IF env = "upsert_fails"
        THEN [events |-> upserted, result |-> StoreErr("Failed to store knowledge")]
        ELSE [events |-> upserted, result |-> StoreOk("node_id")]

\* the JSON text the command returns
StoreReport(success, decision, score) ==
    [success |-> success, decision |-> decision, score |-> score]

\* the command tkg_store_knowledge.  env "not_initialized": TKG_INSTANCE
\* holds None.
tkg_store_knowledge(content, env) ==
    LET wama == evaluate_with_wama(content)
        evaluated == <<Event("wama", wama)>>
        stored == store_knowledge(content, env)
    IN  IF env = "not_initialized"
        THEN [events |-> <<>>, result |-> StoreErr("TKG not initialized")]
        ELSE IF is_let_fade(wama[1])
        THEN [events |-> evaluated,
              result |-> StoreOk(StoreReport(FALSE, "LET_FADE", wama[2]))]
        ELSE [events |-> evaluated \o stored.events,
              result |-> IF stored.result.ok
                         THEN StoreOk(StoreReport(TRUE, wama[1], wama[2]))
                         ELSE StoreErr("Failed to store knowledge: " \o stored.result.value)]

TkgReturned(by, value) == [by |-> by, value |-> value]

\* a call of evaluate_with_wama on its own
EvaluateWithWama ==
    /\ knowledge # None /\ tkg_result = None
    /\ tkg_trace' = Append(tkg_trace, Event("wama", evaluate_with_wama(knowledge[1])))
    /\ tkg_result' = Some(TkgReturned("evaluate_with_wama", evaluate_with_wama(knowledge[1])))
    /\ UNCHANGED knowledge
    /\ UNCHANGED <<agent_run, executor, text_parser, deep_research, receiver>>

StoreKnowledge(env) ==
    /\ knowledge # None /\ tkg_result = None
    /\ tkg_trace' = tkg_trace \o store_knowledge(knowledge[1], env).events
    /\ tkg_result' = Some(TkgReturned("store_knowledge",
                                   store_knowledge(knowledge[1], env).result))
    /\ UNCHANGED knowledge
    /\ UNCHANGED <<agent_run, executor, text_parser, deep_research, receiver>>

TkgStoreKnowledge(env) ==
    /\ knowledge # None /\ tkg_result = None
    /\ tkg_trace' = tkg_trace \o tkg_store_knowledge(knowledge[1], env).events
    /\ tkg_result' = Some(TkgReturned("tkg_store_knowledge",
                                   tkg_store_knowledge(knowledge[1], env).result))
    /\ UNCHANGED knowledge
    /\ UNCHANGED <<agent_run, executor, text_parser, deep_research, receiver>>

\* most words of the pool in one content
MaxWords == 3

\* the pool the contents are made of, in the order they are written
Words == <<"learning", "need to", "prefer", "goal", "important", "code", "it's",
           "because", "my", "wow!", "Rust">>

RECURSIVE Spaced(_)
Spaced(words) ==
    IF words = <<>> THEN ""
    ELSE Head(words) \o (IF Len(words) > 1 THEN " " ELSE "") \o Spaced(Tail(words))

\* filler after the words: none, enough for len() > 50, enough for len() > 100
Pads == {0, 60, 120}

Contents ==
    { Content(Spaced(SelectSeq(Words, LAMBDA w : w \in chosen)), pad) :
        chosen \in { c \in SUBSET { Words[i] : i \in 1..Len(Words) } :
                        Cardinality(c) <= MaxWords },
        pad \in Pads }

StoreEnvs == {"ok", "embed_fails", "upsert_fails"}

InitTkg ==
    /\ new("Developer") /\ ParserAtRest /\ ResearchAtRest /\ ReceiverAtRest
    /\ knowledge \in { Some(content) : content \in Contents }
    /\ tkg_trace = <<>>
    /\ tkg_result = None

NextTkg ==
    \/ EvaluateWithWama
    \/ \E env \in StoreEnvs : StoreKnowledge(env)
    \/ \E env \in StoreEnvs \cup {"not_initialized"} : TkgStoreKnowledge(env)

SpecTkg == InitTkg /\ [][NextTkg]_vars

\* evaluate_with_wama has returned
Evaluated == tkg_result # None /\ tkg_result[1].by = "evaluate_with_wama"

\* the criteria the content handed in matches
Matched ==
    matched_criteria([knowledge[1] EXCEPT !.s = to_lowercase(knowledge[1].s)])

\* C24: for a content that matches no criterion evaluate_with_wama returns
\* exactly (LetFade, 0.0): no boost is applied to a zero base score.
C24_ZeroBase ==
    (Evaluated /\ Matched = <<>>) => tkg_result[1].value = <<"LetFade", 0>>

\* reached by the counterexample: nothing matched, and yet not LetFade
C24_BoostedFromNothing ==
    /\ Evaluated /\ Matched = <<>>
    /\ tkg_result[1].value[1] = "Consider"

\* C25: the score evaluate_with_wama returns lies in [0, 1].
C25_ScoreRange ==
    Evaluated => (tkg_result[1].value[2] >= 0 /\ tkg_result[1].value[2] <= f32_1_0)

\* a base of 0.95 with all three boosts: the cap is what keeps it at 1.0
C25_Witness ==
    /\ Evaluated
    /\ knowledge = Some(Content("learning my wow!", 120))
    /\ tkg_result[1].value[2] = f32_1_0

\* the band of a score
Band(score) ==
    CASE score >= f32_0_9 -> "ImmediateCascade"
      [] score < f32_0_9 /\ score >= f32_0_7 -> "PrioritySave"
      [] score < f32_0_7 /\ score >= f32_0_5 -> "BatchQueue"
      [] score < f32_0_5 /\ score >= f32_0_3 -> "Consider"
      [] score < f32_0_3 -> "LetFade"

\* the sum of the weights of the matched criteria
RECURSIVE WeightSum(_)
WeightSum(matched) ==
    IF matched = <<>> THEN 0
    ELSE f32_add(WeightSum(SubSeq(matched, 1, Len(matched) - 1)),
                 criteria[matched[Len(matched)]][2])

\* no context modifier applies to the content
Unboosted ==
    /\ ~contains_any([s |-> to_lowercase(knowledge[1].s)], {"user", "my", "!", "important"})
    /\ len(knowledge[1]) <= 100

\* C26: the decision is the band of the returned score (ImmediateCascade from
\* 0.9, PrioritySave from 0.7, BatchQueue from 0.5, Consider from 0.3, LetFade
\* below), and the base score is the sum of the matched weights divided by
\* the number of matched criteria.
C26_Banding ==
    Evaluated =>
        /\ tkg_result[1].value[1] = Band(tkg_result[1].value[2])
        /\ (Unboosted /\ Matched # <<>>) =>
               tkg_result[1].value[2] = f32_div(WeightSum(Matched), Len(Matched))

\* three criteria matched, no boost: (0.95 + 0.9 + 0.85) / 3 in f32 is just
\* below 0.9f32, and the decision is PrioritySave
C26_Witness ==
    /\ Evaluated /\ Unboosted
    /\ Len(Matched) = 3
    /\ tkg_result[1].value[2] < f32_0_9
    /\ tkg_result[1].value[2] > f32_0_85
    /\ tkg_result[1].value[1] = "PrioritySave"

\* a store path has returned
Stored == tkg_result # None /\ tkg_result[1].by \in {"store_knowledge", "tkg_store_knowledge"}

EventsOf(event) == SelectSeq(tkg_trace, LAMBDA e : e.event = event)

\* the store request reports that the content was rejected
ReportsRejection ==
    \/ tkg_result[1].by = "store_knowledge" /\ ~tkg_result[1].value.ok
    \/ /\ tkg_result[1].by = "tkg_store_knowledge"
       /\ tkg_result[1].value.ok
       /\ ~tkg_result[1].value.value.success

\* C27: on both store paths no request goes to the embedding provider before
\* the WAMA decision is computed; on LetFade no embedding is requested,
\* nothing is upserted and the request reports rejection; on Consider or
\* higher the embedding is requested and, once it is there, the item is
\* upserted with the WAMA decision and score in its payload.
C27_AdmissionGate ==
    (Stored /\ tkg_trace # <<>>) =>
        LET wama == evaluate_with_wama(knowledge[1])
        IN  /\ \A i \in 1..Len(tkg_trace) :
                   tkg_trace[i].event \in {"embed", "upsert"} =>
                       \E j \in 1..(i - 1) :
                           tkg_trace[j] = Event("wama", wama)
            /\ wama[1] = "LetFade" =>
                   /\ EventsOf("embed") = <<>>
                   /\ EventsOf("upsert") = <<>>
                   /\ ReportsRejection
            /\ wama[1] # "LetFade" =>
                   /\ Len(EventsOf("embed")) = 1
                   /\ EventsOf("embed")[1].payload.text = knowledge[1]
                   /\ EventsOf("embed")[1].payload.answered =>
                          EventsOf("upsert") =
                              <<Event("upsert", Payload(knowledge[1], wama[1], wama[2]))>>

\* a content WAMA lets fade was handed to the command and turned away before
\* anything was sent to the embedding provider
C27_Witness ==
    /\ Stored
    /\ tkg_result[1].by = "tkg_store_knowledge"
    /\ evaluate_with_wama(knowledge[1])[1] = "LetFade"
    /\ tkg_trace = <<Event("wama", evaluate_with_wama(knowledge[1]))>>
    /\ ReportsRejection

----------------------------------------------------------------------------
(* The "deep_research" arm of execute_tool: N research tasks are spawned,
   joined in order, and their sections handed to one synthesis agent. *)

\* most sub-topics in one call
MaxTopics == 3

\* the JSON text the arm returns
ResearchJson(success, error, mode, agents_count) ==
    [success |-> success, error |-> error, mode |-> mode, agents_count |-> agents_count]

\* a sub-topic of the arguments, and what research_topic returns for it
SubTopic(value, found) == [value |-> value, found |-> found]

ResearchArgs(json, topic, topics) == [json |-> json, topic |-> topic, sub_topics |-> topics]

\* `arr.iter().filter_map(|v| v.as_str().map(|s| s.to_string())).collect()`
strings_of(topics) == SelectSeq(topics, LAMBDA sub : sub.value.t = "string")

\* research_topic: the context of the sources found, or the error of search
research_topic(sub) ==
    IF sub.found = "ok"
    THEN [ok |-> TRUE, value |-> "Source: " \o sub.value.v]
    ELSE [ok |-> FALSE, value |-> "Failed to send request to Tavily"]

\* mutant: a branch that failed leaves no section
push_report_OkOnly(sections, sub) ==
    IF research_topic(sub).ok
    THEN Append(sections, "# Research Data on " \o sub.value.v \o "\n\n"
                          \o research_topic(sub).value)
    ELSE sections

\* `reports.push(format!(...))` in the two arms of `match result`
push_report(sections, sub) ==
    IF research_topic(sub).ok
    THEN Append(sections, "# Research Data on " \o sub.value.v \o "\n\n"
                          \o research_topic(sub).value)
    ELSE Append(sections, "# Research Data on " \o sub.value.v \o "\n\nFAILED: "
                          \o research_topic(sub).value)

\* a JoinHandle: the state of the task behind it, and whether it was awaited
Handle(task, joined) == [task |-> task, joined |-> joined]

\* mutant: the handle is not waited for
awaited_NoWait(handle) == TRUE

\* `handle.await` returns once the task behind the handle has ended
awaited(handle) == handle.task = "finished"

\* the arm up to the first await: the arguments are read; without sub_topics
\* the single agent researches the topic itself
DeepResearch(arguments) ==
    /\ research_pc = "idle"
    /\ IF ~arguments.json
       THEN /\ research_pc' = "done"
            /\ research_result' = Some(ResearchJson(FALSE, "Invalid arguments", "", 0))
            /\ UNCHANGED sub_topics
       ELSE IF arguments.topic = None
       THEN /\ research_pc' = "done"
            /\ research_result' = Some(ResearchJson(FALSE, "Missing 'topic' argument", "", 0))
            /\ UNCHANGED sub_topics
       ELSE IF strings_of(arguments.sub_topics) = <<>>
       THEN /\ research_pc' = "single"
            /\ sub_topics' = <<>>
            /\ UNCHANGED research_result
       ELSE /\ research_pc' = "spawning"
            /\ sub_topics' = strings_of(arguments.sub_topics)
            /\ UNCHANGED research_result
    /\ UNCHANGED <<handles, reports>>
    /\ UNCHANGED <<agent_run, executor, text_parser, tkg, receiver>>

\* single agent mode: research_topic, then the synthesis agent
SingleAgent(found, synthesized) ==
    /\ research_pc = "single"
    /\ research_pc' = "done"
    /\ research_result' =
           Some(IF found # "ok" THEN ResearchJson(FALSE, "Research failed", "", 0)
                ELSE IF ~synthesized THEN ResearchJson(FALSE, "Synthesis failed", "", 0)
                ELSE ResearchJson(TRUE, "", "", 0))
    /\ UNCHANGED <<sub_topics, handles, reports>>
    /\ UNCHANGED <<agent_run, executor, text_parser, tkg, receiver>>

\* one turn of `for sub_topic in sub_topics`: tokio::spawn, handles.push
Spawn ==
    /\ research_pc = "spawning"
    /\ handles' = Append(handles, Handle("running", FALSE))
    /\ research_pc' = IF Len(handles) + 1 = Len(sub_topics) THEN "joining" ELSE "spawning"
    /\ UNCHANGED <<sub_topics, reports, research_result>>
    /\ UNCHANGED <<agent_run, executor, text_parser, tkg, receiver>>

\* the task of branch i runs to its end on the runtime, whatever the arm does
BranchEnds(i) ==
    /\ i \in 1..Len(handles)
    /\ handles[i].task = "running"
    /\ handles' = [handles EXCEPT ![i].task = "finished"]
    /\ UNCHANGED <<research_pc, sub_topics, reports, research_result>>
    /\ UNCHANGED <<agent_run, executor, text_parser, tkg, receiver>>

\* one turn of `for handle in handles`: await the next handle, push its section
Join ==
    /\ research_pc = "joining"
    /\ LET next == Len(SelectSeq(handles, LAMBDA h : h.joined)) + 1
       IN  /\ awaited(handles[next])
           /\ handles' = [handles EXCEPT ![next].joined = TRUE]
           /\ reports' = push_report(reports, sub_topics[next])
           /\ research_pc' = IF next = Len(handles) THEN "synthesis" ELSE "joining"
    /\ UNCHANGED <<sub_topics, research_result>>
    /\ UNCHANGED <<agent_run, executor, text_parser, tkg, receiver>>

\* the synthesizer is built and run_autonomous_task sends its completion call
StartSynthesis ==
    /\ research_pc = "synthesis"
    /\ research_pc' = "synthesizing"
    /\ UNCHANGED <<sub_topics, handles, reports, research_result>>
    /\ UNCHANGED <<agent_run, executor, text_parser, tkg, receiver>>

\* run_autonomous_task returns
EndSynthesis(synthesized) ==
    /\ research_pc = "synthesizing"
    /\ research_pc' = "done"
    /\ research_result' =
           Some(IF synthesized
                THEN ResearchJson(TRUE, "", "parallel", Len(reports))
                ELSE ResearchJson(FALSE, "Synthesis failed", "", 0))
    /\ UNCHANGED <<sub_topics, handles, reports>>
    /\ UNCHANGED <<agent_run, executor, text_parser, tkg, receiver>>

TopicNames == <<"a", "b", "c", "d", "e">>

\* the sub_topics arrays: up to MaxTopics strings, each search succeeding or
\* failing, and one array with an entry that is not a string
SubTopicLists ==
    UNION { { [i \in 1..n |-> SubTopic(Str(TopicNames[i]), found[i])] :
                found \in [1..n -> {"ok", "err"}] } : n \in 0..MaxTopics }
    \cup { <<SubTopic(Str("a"), "ok"), SubTopic(Num(5), "ok"), SubTopic(Str("c"), "err")>> }

ResearchArguments ==
    { ResearchArgs(TRUE, Some("tla"), topics) : topics \in SubTopicLists }
    \cup { ResearchArgs(FALSE, None, <<>>), ResearchArgs(TRUE, None, <<>>) }

InitResearch ==
    /\ new("Developer")
    /\ ParserAtRest /\ TkgAtRest /\ ResearchAtRest /\ ReceiverAtRest

NextResearch ==
    \/ \E arguments \in ResearchArguments : DeepResearch(arguments)
    \/ \E found \in {"ok", "err"}, synthesized \in BOOLEAN : SingleAgent(found, synthesized)
    \/ Spawn
    \/ \E i \in 1..MaxTopics : BranchEnds(i)
    \/ Join
    \/ StartSynthesis
    \/ \E synthesized \in BOOLEAN : EndSynthesis(synthesized)

SpecResearch == InitResearch /\ [][NextResearch]_vars

\* the arm is in its parallel mode
Parallel == research_pc \in {"spawning", "joining", "synthesis", "synthesizing"}
            \/ (research_pc = "done" /\ handles # <<>>)

\* C28: all N branch tasks are spawned before the first of them is awaited,
\* and the completion call of the synthesis starts only when all N tasks
\* have ended, however the tasks and the arm interleave.
C28_FanOutFanIn ==
    /\ research_pc = "joining" => Len(handles) = Len(sub_topics)
    /\ (\E i \in 1..Len(handles) : handles[i].joined) =>
           Len(handles) = Len(sub_topics)
    /\ (Parallel /\ research_pc \in {"synthesizing", "done"}) =>
           /\ Len(handles) = Len(sub_topics)
           /\ \A i \in 1..Len(handles) : handles[i].task = "finished"

\* the synthesis call is in flight after three branches were joined
C28_Witness ==
    /\ research_pc = "synthesizing"
    /\ Len(sub_topics) >= 3
    /\ Len(reports) = Len(sub_topics)

\* the section branch i owes: its research text, or a text with FAILED: reason
IsSectionOf(section, sub) ==
    /\ contains(section, "# Research Data on " \o sub.value.v)
    /\ IF sub.found = "ok"
       THEN contains(section, "Source: " \o sub.value.v) /\ ~contains(section, "FAILED: ")
       ELSE contains(section, "FAILED: Failed to send request to Tavily")

----------------------------------------------------------------------------
(* Failure of the completion call *)

CompletionErrors == ChatErrors \cup RequestErrors \cup {"Stream error"}

\* chat / chat_stream returns the error of its completion call in this step
CompletionFails ==
    /\ result = None
    /\ result' # None
    /\ ~result'[1].ok
    /\ result'[1].error \in CompletionErrors

\* the failing step ends the run and leaves the history (but for the pruning
\* chat_stream does before its request) and the executed tools as they were
ReturnsErr ==
    CompletionFails =>
        /\ pc' \in {"chat_done", "stream_done"}
        /\ iteration' = iteration
        /\ conversation_history' \in
               {conversation_history, prune_history(conversation_history)}
        /\ executed' = executed
        /\ tool_call' = tool_call

\* a run that has returned sends no completion call, appends and executes nothing
StaysReturned ==
    pc \in {"chat_done", "stream_done"} =>
        /\ completions' = completions
        /\ executed' = executed
        /\ conversation_history' = conversation_history

\* while the stream of an iteration is received, the history is the one the
\* iteration began with and every executed tool is of an earlier iteration
NothingOfThisIteration ==
    pc = "stream_recv" =>
        /\ conversation_history = prune_history(pruned_from)
        /\ Len(executed) = total_tool_calls

\* C30: when the completion call of an iteration fails, chat / chat_stream
\* returns Err in that iteration and sends no further completion call; no
\* assistant or tool message is appended for the iteration and none of its
\* tools is executed.
C30_HardFailure ==
    [][ReturnsErr]_vars /\ [][StaysReturned]_vars /\ []NothingOfThisIteration

\* the stream of a later iteration broke after a chunk of it had been
\* emitted: the run has ended with the error, the tools of the earlier
\* iteration executed and nothing of the failed one in the history
C30_Witness ==
    /\ pc = "stream_done"
    /\ result = Some(Err("Stream error"))
    /\ iteration > 0
    /\ executed # <<>>
    /\ conversation_history[Len(conversation_history)].role = "tool"
    /\ Len(emitted) > iteration

----------------------------------------------------------------------------
(* chat on an agent configured by its builders: calls that the policy of   *)
(* execute_tool rejects                                                    *)

WireTerminal == Wire(0, Some("t"), Some("run_terminal_command"), Some("{}"))
WireWrite == Wire(0, Some("w"), Some("write_file"), Some(WriteOutsideText))
WireUnknown == Wire(1, Some("u"), Some("no_such_tool"), Some("{}"))
WireSum == Wire(1, Some("a"), Some("calculate"), Some("{}"))

PolicyResponses ==
    { Buffered(<<>>, <<WireTerminal, WireSum>>),
      Buffered(<<>>, <<WireWrite, WireUnknown>>),
      Buffered(TxtAnswer, <<>>) }

PolicyMaps == UNION {[names -> BOOLEAN] : names \in SUBSET {"calculate"}}

PolicyIter == 2

NextPolicy ==
    \/ \E flag \in BOOLEAN : with_safe_mode(flag)
    \/ \E map \in PolicyMaps : with_enabled_tools(map)
    \/ \E content \in UserContents :
         Len(conversation_history) < MaxUser /\ add_user_message(content)
    \/ \E n \in 1..PolicyIter : StartChat(n)
    \/ \E response \in PolicyResponses : ChatCompletion(response)
    \/ ChatToolBegin
    \/ ChatToolEnd
    \/ ChatMaxIterations

SpecPolicy == InitTools /\ [][NextPolicy]_vars

\* the names that have an arm in the match of execute_tool
HandledNames == {"calculate", "read_file", "write_file", "run_terminal_command"}

\* execute_tool rejects the call: mode lock, session toggle, safe mode, write
\* scope, or a name without an arm
IsRejected(call) ==
    \/ app_mode = "Student" /\ call.name \in {"run_terminal_command", "write_file_batch"}
    \/ call.name \in DOMAIN enabled_tools /\ ~enabled_tools[call.name]
    \/ safe_mode /\ call.name = "run_terminal_command"
    \/ call.name = "write_file" /\ call.arguments = WriteOutsideText
    \/ call.name \notin HandledNames

\* the text is a JSON object with an error message and no success
IsFailureEnvelope(text) ==
    /\ Len(text) = 1
    /\ SubSeq(text[1].s, 1, 10) = "{\"error\":\""
    /\ ~contains(text[1].s, "\"success\":true")

\* a rejected call returns: its envelope is the call's tool message, nothing
\* is written or spawned, chat does not return, and the next call of the
\* batch or the next iteration follows
RejectionAppended ==
    (pc = "chat_running" /\ pc' # pc /\ IsRejected(CurrentCall)) =>
        /\ Len(conversation_history') = Len(conversation_history) + 1
        /\ SubSeq(conversation_history', 1, Len(conversation_history))
             = conversation_history
        /\ Last(conversation_history').role = "tool"
        /\ Last(conversation_history').tool_call_id = Some(CurrentCall.id)
        /\ IsFailureEnvelope(Last(conversation_history').content)
        /\ files' = files /\ spawned' = spawned
        /\ result' = None
        /\ IF idx < Len(tool_calls)
           THEN idx' = idx + 1 /\ pc' = "chat_exec" /\ iteration' = iteration
           ELSE pc' = "chat_top" /\ iteration' = iteration + 1

\* every call of the batch is executed when its turn comes
BatchGoesOn ==
    (pc = "chat_exec" /\ pc' # pc) =>
        /\ pc' = "chat_running"
        /\ executed' = Append(executed, tool_calls[idx])

\* the calls of a batch that are over have run and have been answered, in order
AnsweredSoFar ==
    pc \in {"chat_exec", "chat_running"} =>
        LET n == IF pc = "chat_exec" THEN idx - 1 ELSE idx
            answered == idx - 1
            h == Len(conversation_history)
        IN  /\ result = None
            /\ Len(executed) >= n
            /\ SubSeq(executed, Len(executed) - n + 1, Len(executed))
                 = SubSeq(tool_calls, 1, n)
            /\ \A k \in 1..answered :
                 conversation_history[h - answered + k].tool_call_id
                   = Some(tool_calls[k].id)

\* C31: in chat, a call that execute_tool rejects (mode lock, session toggle,
\* safe mode, write scope, unknown name) gets its failure envelope appended as
\* its tool message, the rest of the batch is still executed, chat does not
\* return, and after the last call of the batch the next iteration begins.
C31_RejectionNotTerminal ==
    /\ [][RejectionAppended]_vars
    /\ [][BatchGoesOn]_vars
    /\ []AnsweredSoFar

\* a run in which the first call of a batch was rejected, the second call was
\* executed and answered, and the next iteration has begun
C31_Witness ==
    /\ pc = "chat_top"
    /\ iteration = 1
    /\ LoopContinues
    /\ Len(tool_calls) = 2
    /\ Len(conversation_history) >= 3
    /\ LET h == Len(conversation_history)
       IN  /\ IsFailureEnvelope(conversation_history[h - 1].content)
           /\ conversation_history[h - 1].tool_call_id = Some(tool_calls[1].id)
           /\ conversation_history[h].tool_call_id = Some(tool_calls[2].id)
           /\ conversation_history[h].content = ResultOk

----------------------------------------------------------------------------
(* The history a completion request is built from *)

\* `messages.extend(self.conversation_history.clone())`: chat builds the
\* prompt from the history as it stands, chat_stream from the history that
\* its prune_history has just left
BuiltFrom ==
    IF pc = "chat_top" THEN conversation_history ELSE conversation_history'

WithinBudget(history) == ~OverCeiling(history) \/ Len(history) <= 10

RequestSent == completions' = completions + 1

PromptWithinBudget == RequestSent => WithinBudget(BuiltFrom)

\* C32: in every iteration of chat and of chat_stream the message list sent to
\* the completion service is built from a history whose estimate is at most
\* the ceiling or that has no more messages than the floor.
C32_PrunedPrompt == [][PromptWithinBudget]_vars

\* the same for the requests of chat_stream alone
StreamPromptWithinBudget ==
    (RequestSent /\ pc = "stream_top") => WithinBudget(BuiltFrom)

C32_StreamPrunedPrompt == [][StreamPromptWithinBudget]_vars

----------------------------------------------------------------------------
(* The receive loop of chat_stream on the bytes of the response body       *)
(*                                                                         *)
(* The body is a String of bytes; `stream` yields it in chunks of any      *)
(* sizes.  full_content and the contents of the emitted chunks are Strings *)
(* here.                                                                   *)

MaxChunk == 6

\* buffer[start_index..].iter().position(|&b| b == b'\n'), as the number of
\* bytes before that newline in the buffer (-1: None)
position(bytes, start_index) ==
    LET newlines == {k \in start_index..(Len(bytes) - 1) :
                       SubSeq(bytes, k + 1, k + 1) = "\n"}
    IN  IF newlines = {} THEN -1
        ELSE CHOOSE k \in newlines : \A other \in newlines : k <= other

starts_with(line, prefix) ==
    Len(line) >= Len(prefix) /\ SubSeq(line, 1, Len(prefix)) = prefix

DataHel == "{\"choices\":[{\"delta\":{\"content\":\"Hel\"}}]}"
DataLo == "{\"choices\":[{\"delta\":{\"content\":\"lo\"}}]}"
DataCalls ==
    "{\"choices\":[{\"delta\":{\"tool_calls\":["
    \o "{\"index\":0,\"id\":\"a\",\"function\":{\"name\":\"calculate\",\"arguments\":\"[1\"}},"
    \o "{\"index\":1,\"id\":\"b\",\"function\":{\"name\":\"read\",\"arguments\":\"[\"}}]}}]}"
DataMore ==
    "{\"choices\":[{\"delta\":{\"tool_calls\":["
    \o "{\"index\":1,\"id\":\"c\",\"function\":{\"name\":\"read_file\",\"arguments\":\"3\"}},"
    \o "{\"index\":0,\"function\":{\"arguments\":\",2]\"}},"
    \o "{\"index\":1,\"function\":{\"arguments\":\"]\"}}]}}]}"
DataRole == "{\"choices\":[{\"delta\":{\"role\":\"assistant\"}}]}"

\* the data the service sends and the delta each of them parses to
KnownData ==
    { <<DataHel, Delta(Some("Hel"), <<>>)>>,
      <<DataLo, Delta(Some("lo"), <<>>)>>,
      <<DataCalls, Delta(None, <<Wire(0, Some("a"), Some("calculate"), Some("[1")),
                                 Wire(1, Some("b"), Some("read"), Some("["))>>)>>,
      <<DataMore, Delta(None, <<Wire(1, Some("c"), Some("read_file"), Some("3")),
                                Wire(0, None, None, Some(",2]")),
                                Wire(1, None, None, Some("]"))>>)>>,
      <<DataRole, Delta(None, <<>>)>> }

\* serde_json::from_str(data) and parsed["choices"][0]["delta"].as_object():
\* None for a text that is not one of the JSON texts above (part of a line,
\* a text that is not JSON)
delta_of(data) ==
    IF \E known \in KnownData : known[1] = data
    THEN Some((CHOOSE known \in KnownData : known[1] = data)[2])
    ELSE None

\* the body of `if let Some(delta) = ..`: the content is appended and
\* emitted, the entries of tool_calls are merged by index
apply_delta(state, delta) ==
    Received(IF delta.content # None
             THEN state.full_content \o delta.content[1] ELSE state.full_content,
             ApplyDelta(state.tool_calls, delta.tool_calls),
             IF delta.content # None
             THEN Append(state.emitted, delta.content[1]) ELSE state.emitted)

Scanned(state, start_index, done) ==
    [state |-> state, start_index |-> start_index, done |-> done]

\* `while start_index < buffer.len()`: the complete lines of the buffer from
\* start_index on, up to a line `data: [DONE]`
RECURSIVE process_lines(_, _, _)
process_lines(bytes, start_index, state) ==
    LET newline_index == position(bytes, start_index)
    IN  IF start_index >= Len(bytes) \/ newline_index = -1
        THEN Scanned(state, start_index, FALSE)
        ELSE LET line == SubSeq(bytes, start_index + 1, newline_index)
                 data == SubSeq(line, 7, Len(line))
             IN  IF ~starts_with(line, "data: ")
                 THEN process_lines(bytes, newline_index + 1, state)
                 ELSE IF data = "[DONE]" THEN Scanned(state, start_index, TRUE)
                 ELSE IF delta_of(data) = None
                 THEN process_lines(bytes, newline_index + 1, state)
                 ELSE process_lines(bytes, newline_index + 1,
                                    apply_delta(state, delta_of(data)[1]))

\* mutant: the processed lines stay in the buffer
drain_Nothing(bytes, start_index) == bytes

\* buffer.drain(..start_index)
drain(bytes, start_index) == SubSeq(bytes, start_index + 1, Len(bytes))

RECURSIVE Body(_)
Body(lines) == IF lines = <<>> THEN "" ELSE Head(lines) \o "\n" \o Body(Tail(lines))

\* the response arrives: the locals of the iteration are created
StartReceive(lines) ==
    /\ sse_pc = "idle"
    /\ sse_lines' = lines
    /\ network' = Body(lines)
    /\ buffer' = ""
    /\ streamed' = Received("", <<>>, <<>>)
    /\ sse_pc' = "receiving"
    /\ UNCHANGED <<agent_run, executor, text_parser, tkg, deep_research>>

\* `stream.next()` yields a chunk of n bytes: it is appended to the buffer,
\* the complete lines are processed and drained; at `data: [DONE]` the rest
\* of the stream is consumed unread
ReceiveChunk(n) ==
    /\ sse_pc = "receiving"
    /\ n \in 1..Len(network)
    /\ LET bytes == buffer \o SubSeq(network, 1, n)
           after == process_lines(bytes, 0, streamed)
       IN  /\ streamed' = after.state
           /\ buffer' = drain(bytes, after.start_index)
           /\ network' = IF after.done THEN ""
                         ELSE SubSeq(network, n + 1, Len(network))
    /\ UNCHANGED <<sse_lines, sse_pc>>
    /\ UNCHANGED <<agent_run, executor, text_parser, tkg, deep_research>>

\* `stream.next()` yields None
StreamEnds ==
    /\ sse_pc = "receiving"
    /\ network = ""
    /\ sse_pc' = "complete"
    /\ UNCHANGED <<sse_lines, network, buffer, streamed>>
    /\ UNCHANGED <<agent_run, executor, text_parser, tkg, deep_research>>

DoneLine == "data: [DONE]"

SseBodies ==
    { <<"data: " \o DataRole, "", "data: " \o DataHel, "", "data: " \o DataLo, "",
        DoneLine, "">>,
      <<"data: " \o DataCalls, "data: " \o DataMore, DoneLine>>,
      <<"data: " \o DataMore, "data: " \o DataCalls, DoneLine>>,
      <<"data: " \o DataHel, "data: " \o DataCalls, DoneLine, "data: " \o DataLo,
        "data: " \o DataMore>>,
      <<": ping", "data: {\"choices\":[{\"del", "data: " \o DataLo, DoneLine>> }

\* the sizes of the next chunk: a few bytes, half of what is left, all of it
ChunkSizes == (1..MaxChunk) \cup {(Len(network) + 1) \div 2, Len(network)}

InitSse ==
    /\ new("Developer")
    /\ ParserAtRest /\ TkgAtRest /\ ResearchAtRest /\ ReceiverAtRest

NextSse ==
    \/ \E lines \in SseBodies : StartReceive(lines)
    \/ \E n \in ChunkSizes : ReceiveChunk(n)
    \/ StreamEnds

SpecSse == InitSse /\ [][NextSse]_vars

----------------------------------------------------------------------------
(* Properties of the receive loop *)

NothingReceived == Received("", <<>>, <<>>)

\* the lines before the first `data: [DONE]`
RECURSIVE BeforeDone(_)
BeforeDone(lines) ==
    IF lines = <<>> \/ Head(lines) = DoneLine THEN <<>>
    ELSE <<Head(lines)>> \o BeforeDone(Tail(lines))

\* the lines whose newline is among the first `delivered` bytes of the body
RECURSIVE CompleteLines(_, _)
CompleteLines(lines, delivered) ==
    IF lines = <<>> \/ Len(Head(lines)) + 1 > delivered THEN <<>>
    ELSE <<Head(lines)>> \o CompleteLines(Tail(lines), delivered - Len(Head(lines)) - 1)

DeltaOfLine(line) ==
    IF starts_with(line, "data: ") THEN delta_of(SubSeq(line, 7, Len(line))) ELSE None

\* the deltas of the lines, each line taken once and in order
RECURSIVE LineByLine(_, _)
LineByLine(lines, state) ==
    IF lines = <<>> THEN state
    ELSE LineByLine(Tail(lines),
                    IF DeltaOfLine(Head(lines)) = None THEN state
                    ELSE apply_delta(state, DeltaOfLine(Head(lines))[1]))

Delivered == Len(Body(sse_lines)) - Len(network)

\* C39: whatever the sizes of the chunks, the content, the emitted chunks and
\* the tool calls accumulated so far are those of the lines whose newline has
\* arrived, each processed once and in order, and no line after `data: [DONE]`
\* is processed; at the end of the stream they are those of the lines before
\* `data: [DONE]`.
C39_ChunkingIndependence ==
    /\ sse_pc = "receiving" =>
         streamed = LineByLine(BeforeDone(CompleteLines(sse_lines, Delivered)),
                               NothingReceived)
    /\ sse_pc = "complete" =>
         streamed = LineByLine(BeforeDone(sse_lines), NothingReceived)

\* a first line has been processed, the first bytes of the next line wait in
\* the buffer for their newline, and lines follow `data: [DONE]` in the body
C39_Witness ==
    /\ sse_pc = "receiving"
    /\ BeforeDone(sse_lines) # sse_lines
    /\ Len(sse_lines) > Len(BeforeDone(sse_lines)) + 1
    /\ streamed.full_content = "Hel"
    /\ buffer # ""
    /\ position(buffer, 0) = -1
    /\ network # ""

\* the entries of delta.tool_calls of the lines, in arrival order
RECURSIVE AllWires(_)
AllWires(lines) ==
    IF lines = <<>> THEN <<>>
    ELSE (IF DeltaOfLine(Head(lines)) = None THEN <<>>
          ELSE DeltaOfLine(Head(lines))[1].tool_calls)
         \o AllWires(Tail(lines))

\* the argument fragments addressed to index i, concatenated in arrival order
RECURSIVE Fragments(_, _)
Fragments(wires, i) ==
    IF wires = <<>> THEN ""
    ELSE (IF Head(wires).index = i /\ Head(wires).arguments # None
          THEN Head(wires).arguments[1] ELSE "")
         \o Fragments(Tail(wires), i)

\* the last id / name delivered for index i ("": none)
RECURSIVE LatestId(_, _)
LatestId(wires, i) ==
    IF wires = <<>> THEN ""
    ELSE LET w == wires[Len(wires)]
         IN  IF w.index = i /\ w.id # None THEN w.id[1]
             ELSE LatestId(SubSeq(wires, 1, Len(wires) - 1), i)

RECURSIVE LatestName(_, _)
LatestName(wires, i) ==
    IF wires = <<>> THEN ""
    ELSE LET w == wires[Len(wires)]
         IN  IF w.index = i /\ w.name # None THEN w.name[1]
             ELSE LatestName(SubSeq(wires, 1, Len(wires) - 1), i)

Indices(wires) == {wires[k].index : k \in 1..Len(wires)}

\* C33: at the end of the stream there is one tool call for every index up to
\* the largest one delivered; the arguments of the call at index i are the
\* fragments addressed to i, concatenated in arrival order, and its id and
\* name are the latest delivered for i.
C33_Accumulation ==
    sse_pc = "complete" =>
        LET wires == AllWires(BeforeDone(sse_lines))
            calls == streamed.tool_calls
        IN  /\ \A i \in Indices(wires) : i < Len(calls)
            /\ calls # <<>> => Len(calls) - 1 \in Indices(wires)
            /\ \A i \in 0..(Len(calls) - 1) :
                 /\ calls[i + 1].arguments = Fragments(wires, i)
                 /\ calls[i + 1].id = LatestId(wires, i)
                 /\ calls[i + 1].name = LatestName(wires, i)

\* fragments of two indices arrived interleaved, index 1 first, and the id and
\* the name of index 1 were delivered twice
C33_Witness ==
    /\ sse_pc = "complete"
    /\ sse_lines[1] = "data: " \o DataMore
    /\ streamed.tool_calls =
         <<ToolCall("a", "calculate", ",2][1"), ToolCall("b", "read", "3][")>>

----------------------------------------------------------------------------
(* The repeat counter of chat_stream *)

\* the last three signatures of the log followed by the call are equal
ThirdInARow(log, call) ==
    /\ Len(log) >= 2
    /\ Signature(log[Len(log)]) = Signature(call)
    /\ Signature(log[Len(log) - 1]) = Signature(call)

\* a call whose signature differs from that of the call executed before it
\* (in this batch or in an earlier iteration) resets the counter and is executed
ResetOnDifference ==
    (/\ pc = "stream_exec"
     /\ pc' # pc
     /\ last_tool_call_signature # Some(Signature(CurrentCall)))
        => /\ consecutive_repeats' = 0
           /\ pc' = "stream_running"
           /\ executed' = Append(executed, CurrentCall)
           /\ ~break_outer'

\* the abort is decided only on a third call in a row
AbortOnlyOnThird ==
    (pc = "stream_exec" /\ break_outer') => ThirdInARow(executed, CurrentCall)

\* the signature compared is always that of the call executed last, whatever
\* the iteration it was executed in
ComparedWithLastExecuted ==
    (InStream /\ ~break_outer) =>
        last_tool_call_signature =
            IF executed = <<>> THEN None ELSE Some(Signature(Last(executed)))

\* C35: in chat_stream a call whose signature differs from that of the call
\* executed before it (across iterations and inside a batch) resets the repeat
\* counter to 0, and the loop-detection abort is only decided for a call that
\* would be the third in a row with one signature.
C35_RepeatCounter ==
    /\ [][ResetOnDifference]_vars
    /\ [][AbortOnlyOnThird]_vars
    /\ []ComparedWithLastExecuted

\* A, A, B, A, A over five iterations: no abort, the counter stands at 1
C35_Witness ==
    /\ InStream
    /\ ~break_outer
    /\ Len(executed) = 5
    /\ [k \in 1..5 |-> executed[k].name]
         = <<"calculate", "calculate", "read_file", "calculate", "calculate">>
    /\ consecutive_repeats = 1

----------------------------------------------------------------------------
(* The floor of the score of a content that matches a criterion *)

WamaEvents == EventsOf("wama")

\* C36: a content that matches at least one criterion is scored at least 0.7
\* and decided PrioritySave or ImmediateCascade; BatchQueue is decided for no
\* content; and on the store paths a content that matches a criterion passes
\* the admission gate: once it is evaluated its embedding is requested.
C36_MatchedFloor ==
    tkg_result # None =>
        /\ \A i \in 1..Len(WamaEvents) :
             /\ WamaEvents[i].payload[1] # "BatchQueue"
             /\ Matched # <<>> =>
                  /\ WamaEvents[i].payload[2] >= f32_0_7
                  /\ WamaEvents[i].payload[1] \in {"PrioritySave", "ImmediateCascade"}
        /\ (Stored /\ Matched # <<>> /\ WamaEvents # <<>>) => EventsOf("embed") # <<>>

\* a content that matches the criterion of the smallest weight only, and that
\* no boost applies to, was stored: scored exactly 0.7 and embedded
C36_Witness ==
    /\ Stored
    /\ Matched = <<8>>
    /\ WamaEvents[1].payload = <<"PrioritySave", f32_0_7>>
    /\ EventsOf("embed") # <<>>

----------------------------------------------------------------------------
(* The tools offered to the model and the arms of execute_tool *)

\* the call ended in the `_` arm
UnknownToolResult ==
    tool_call[1].returned = to_string(UnknownTool(tool_call[1].tool_name))

\* C37: a call of a tool that get_enabled_tools offers to the model never
\* returns the "Unknown tool" result.
C37_RegistryDispatch ==
    (Called /\ tool_call[1].tool_name \in get_enabled_tools) => ~UnknownToolResult

\* reached by the counterexample: claim_legacy_data is offered and is unknown
C37_OfferedButUnknown ==
    /\ Called
    /\ tool_call[1].tool_name = "claim_legacy_data"
    /\ "claim_legacy_data" \in get_enabled_tools
    /\ UnknownToolResult
    /\ tool_call[1].handler = ""

----------------------------------------------------------------------------
(* The "stop-generation" listener of chat_stream *)

\* C38: when chat_stream has returned, on any of its return paths, the
\* listener it registered at entry has been unregistered.
C38_ListenerCleanup == (pc = "stream_done" /\ Returned) => ~listening

\* reached by the counterexample: chat_stream has returned the failure of its
\* completion request or of the byte stream and the listener stays registered
C38_ListenerLeft ==
    /\ pc = "stream_done"
    /\ result # None
    /\ ~result[1].ok
    /\ result[1].error \in RequestErrors \cup {"Stream error"}
    /\ listening

\* the returns that are not failures of the request or of the stream
\* (final answer, cancellation, iteration cap, loop-detection abort) unregister
C38_OtherReturnsUnlisten ==
    (/\ pc = "stream_done"
     /\ Returned
     /\ (result[1].ok \/ result[1].error = StreamMaxError(max_iterations)))
        => ~listening

----------------------------------------------------------------------------
(* The text extraction of chat against that of chat_stream *)

\* C40: for one response text without structured tool calls and one count of
\* earlier tool calls, an iteration of chat and an iteration of chat_stream
\* obtain the same list of tool calls: names, argument strings, ids, order.
C40_BufferedStreamingEquivalence ==
    extracted # None =>
        extracted[1].calls =
            IF extracted[1].by = "chat"
            THEN StreamExtract(<<>>, response_text[1], call_base)
            ELSE IF extracted[1].by = "chat_stream"
            THEN ChatExtract(Buffered(response_text[1], <<>>), call_base)
            ELSE extracted[1].calls

\* reached by the counterexample: chat has found no call in a text from which
\* chat_stream extracts the call of a <tool_code> block
C40_XmlOnlyInStream ==
    /\ extracted # None
    /\ extracted[1].by = "chat"
    /\ extracted[1].calls = <<>>
    /\ parse_grok_xml_tools(response_text[1], call_base) # <<>>
    /\ StreamExtract(<<>>, response_text[1], call_base)
         = parse_grok_xml_tools(response_text[1], call_base)

----------------------------------------------------------------------------
(* Bracketed blocks that are neither JSON nor legacy grammar *)

IsMalformed(seg) == seg \in {BlkMalformed, BlkTruncated}

WithoutMalformed(text) == SelectSeq(text, LAMBDA seg : ~IsMalformed(seg))

HasMalformed(text) == \E k \in 1..Len(text) : IsMalformed(text[k])

\* the calls written in the well-formed bracketed blocks, in text order
WellFormedCalls(text) == BlockCalls(WithoutMalformed(text), "tool")

\* C34: parse_text_tool_calls returns a list for every text, and a bracketed
\* block that is neither JSON nor legacy grammar is skipped: the calls
\* returned, their ids included, are those returned for the text without that
\* block, and every call of a well-formed block of the same text is among them.
C34_MalformedSkipped ==
    (extracted # None /\ extracted[1].by = "parse_text_tool_calls") =>
        LET calls == extracted[1].calls
            text == response_text[1]
        IN  /\ DOMAIN calls = 1..Len(calls)
            /\ calls = parse_text_tool_calls(WithoutMalformed(text), call_base)
            /\ WellFormedCalls(text) # <<>> =>
                 /\ Len(calls) = Len(WellFormedCalls(text))
                 /\ \A n \in 1..Len(calls) :
                      /\ calls[n].name = WellFormedCalls(text)[n].name
                      /\ calls[n].arguments = WellFormedCalls(text)[n].arguments
                      /\ calls[n].id = "call_" \o ToString(call_base + n - 1)

\* a truncated block stands between two well-formed blocks and all three of
\* their calls are returned
C34_Witness ==
    /\ extracted # None
    /\ extracted[1].by = "parse_text_tool_calls"
    /\ response_text = Some(<<BlkSingle, BlkTruncated, BlkArray>>)
    /\ Len(extracted[1].calls) = 3
    /\ extracted[1].calls[3].id = "call_" \o ToString(call_base + 2)

====
